---- MODULE Spec2Model ----
(***************************************************************************)
(* FIRSTrun: the WPILOG value decoder (src/src/values) and the             *)
(* time-indexed entry store (src/src/log.rs).                              *)
(*                                                                         *)
(* Conventions of the model                                                *)
(*  - a Rust String / &str is a sequence of lexical tokens, e.g. the tag   *)
(*    "struct:Foo[]" is <<"struct:", "Foo", "[]">>; strip_suffix,          *)
(*    starts_with and concatenation are sequence operations;               *)
(*  - an EntityPath is a sequence of such strings (its parts);             *)
(*  - a byte slice is a sequence of integers 0..255;                       *)
(*  - an Option is [some |-> FALSE] or [some |-> TRUE, v |-> x];           *)
(*  - a hashbrown HashMap is a function together with the order in which   *)
(*    this instance iterates (field `iter`); the order of an instance is   *)
(*    unspecified (it depends on the hasher seed of the instance), so it   *)
(*    is chosen nondeterministically where the instance is built;          *)
(*  - an arrow array is [dt |-> datatype, vals |-> sequence of elements].  *)
(***************************************************************************)
EXTENDS Integers, Sequences, FiniteSets, TLC, Bags

(***************************************************************************)
(* Bounds of the exploration.                                              *)
(***************************************************************************)
MaxByte == 1
MaxLen == 2
MaxTime == 2
MaxOps == 3

None == [some |-> FALSE]
Some(x) == [some |-> TRUE, v |-> x]

Ok(x) == [ok |-> TRUE, v |-> x]
\* EntryValueParseError::Other(anyhow) and ::StructNotFound(name)
ErrOther(m) == [ok |-> FALSE, e |-> "Other", msg |-> m]
StructNotFound(n) == [ok |-> FALSE, e |-> "StructNotFound", name |-> n]
\* a panic!() raised while evaluating (unwrap on Err, windows(0))
Panicked(m) == [ok |-> FALSE, e |-> "Panic", msg |-> m]

Last(s) == s[Len(s)]
Front(s) == SubSeq(s, 1, Len(s) - 1)

\* slice::windows(n): every contiguous sub-slice of length n, in order
windows(data, n) ==
    [i \in 1..(IF Len(data) >= n THEN Len(data) - n + 1 ELSE 0)
        |-> SubSeq(data, i, i + n - 1)]

RECURSIVE from_le_bytes(_)
\* uNN::from_le_bytes: the little-endian value of a byte sequence
from_le_bytes(b) ==
    IF b = <<>> THEN 0 ELSE Head(b) + 256 * from_le_bytes(Tail(b))

\* i64::from_le_bytes: two's complement of the 8 bytes
i64_from_le_bytes(b) ==
    IF b[8] >= 128 THEN from_le_bytes(b) - 2^64 ELSE from_le_bytes(b)

\* String::from_utf8_lossy on single-byte code points: a byte that is not
\* ASCII becomes U+FFFD
from_utf8_lossy(data) ==
    [i \in 1..Len(data) |-> IF data[i] < 128 THEN data[i] ELSE 65533]

\* Result::and_then and Result::map (the `?` operator is and_then)
and_then(r, F(_)) == IF r.ok THEN F(r.v) ELSE r
map(r, F(_)) == IF r.ok THEN Ok(F(r.v)) ELSE r

\* HashMap::insert / IntMap entry().or_default() followed by an assignment
insert(m, k, v) == [x \in DOMAIN m \cup {k} |-> IF x = k THEN v ELSE m[x]]
\* HashMap::remove
remove(m, k) == [x \in DOMAIN m \ {k} |-> m[x]]

RECURSIVE collect(_)
\* Iterator<Item = Result>::collect::<Result<Vec, _>>: the first Err, or all
collect(rs) ==
    IF rs = <<>> THEN Ok(<<>>)
    ELSE and_then(Head(rs), LAMBDA h : map(collect(Tail(rs)), LAMBDA t : <<h>> \o t))

(***************************************************************************)
(* src/src/values/parse/wpistruct.rs: primitives of the struct grammar.    *)
(***************************************************************************)
WpiLibStructPrimitives ==
    {"Bool", "Char", "Int8", "Int16", "Int32", "Int64",
     "Uint8", "Uint16", "Uint32", "Uint64", "Float", "Double"}

\* WpiLibStructPrimitives::size
size(p) ==
    CASE p \in {"Bool", "Char", "Int8", "Uint8"} -> 1
      [] p \in {"Int16", "Uint16"} -> 2
      [] p \in {"Int32", "Uint32", "Float"} -> 3
      [] p \in {"Int64", "Uint64", "Double"} -> 4

\* WpiLibStructPrimitives::datatype
datatype(p) ==
    CASE p = "Bool" -> "Boolean"
      [] p = "Char" -> "Utf8"
      [] p = "Int8" -> "Int8"
      [] p = "Int16" -> "Int16"
      [] p = "Int32" -> "Int32"
      [] p = "Int64" -> "Int64"
      [] p = "Uint8" -> "UInt8"
      [] p = "Uint16" -> "UInt16"
      [] p = "Uint32" -> "UInt32"
      [] p = "Uint64" -> "UInt64"
      [] p = "Float" -> "Float32"
      [] p = "Double" -> "Float64"

Primitive(p) == [kind |-> "Primitive", p |-> p]
Custom(s) == [kind |-> "Custom", s |-> s]
\* WpiLibStructValues::Value
Value == [kind |-> "Value"]
\* WpiLibStructData { count, value, ty }
WpiLibStructData(count, value, ty) == [count |-> count, value |-> value, ty |-> ty]

\* WpiLibStructSchema { fields }
Schema(fields) == [fields |-> fields]

(***************************************************************************)
(* src/src/values/parse/wpistruct.rs: the grammar of a struct schema.  A   *)
(* text is the sequence of its characters, each a string of length one;    *)
(* a nom parser returns (rest, out) or fails.                              *)
(***************************************************************************)
Alpha ==
    {"a", "b", "c", "d", "e", "f", "g", "h", "i", "j", "k", "l", "m",
     "n", "o", "p", "q", "r", "s", "t", "u", "v", "w", "x", "y", "z",
     "A", "B", "C", "D", "E", "F", "G", "H", "I", "J", "K", "L", "M",
     "N", "O", "P", "Q", "R", "S", "T", "U", "V", "W", "X", "Y", "Z"}
Digits == <<"0", "1", "2", "3", "4", "5", "6", "7", "8", "9">>
Digit == {Digits[i] : i \in 1..10}
Whitespace == {" ", "\t", "\r", "\n"}

\* nom::Err::Error
NomErr == [ok |-> FALSE, e |-> "Nom"]
\* the (rest, out) of a nom parser that consumed the first n characters
Parsed(data, n) ==
    Ok([rest |-> SubSeq(data, n + 1, Len(data)), out |-> SubSeq(data, 1, n)])

RECURSIVE take_while(_, _)
\* the number of leading characters of data that are in the class
take_while(data, class) ==
    IF data # <<>> /\ Head(data) \in class THEN 1 + take_while(Tail(data), class) ELSE 0

\* nom::character::complete::multispace0 and multispace1
multispace0(data) == Parsed(data, take_while(data, Whitespace))
multispace1(data) ==
    IF take_while(data, Whitespace) = 0 THEN NomErr ELSE multispace0(data)

\* nom::bytes::complete::tag
tag(t, data) ==
    IF Len(data) >= Len(t) /\ SubSeq(data, 1, Len(t)) = t THEN Parsed(data, Len(t))
    ELSE NomErr

\* identifier: a letter or `_`, then letters, digits and `_`
identifier(data) ==
    IF data # <<>> /\ Head(data) \in Alpha \cup {"_"}
    THEN Parsed(data, 1 + take_while(Tail(data), Alpha \cup Digit \cup {"_"}))
    ELSE NomErr

RECURSIVE decimal(_)
\* the value of a sequence of decimal digits
decimal(ds) ==
    IF ds = <<>> THEN 0
    ELSE 10 * decimal(Front(ds)) + (CHOOSE d \in 0..9 : Digits[d + 1] = Last(ds))

\* nom::character::complete::usize: digits, failing on none and on overflow
\* (a number of up to 9 digits cannot overflow)
usize(data) ==
    IF take_while(data, Digit) = 0 THEN NomErr
    ELSE IF take_while(data, Digit) > 9
            /\ decimal(SubSeq(data, 1, take_while(data, Digit))) >= 2^64 THEN NomErr
    ELSE Ok([rest |-> SubSeq(data, take_while(data, Digit) + 1, Len(data)),
             out |-> decimal(SubSeq(data, 1, take_while(data, Digit)))])

\* the digits of an i64 after its sign
i64_digits(data, negative) ==
    IF take_while(data, Digit) = 0 THEN NomErr
    ELSE IF take_while(data, Digit) > 9
            /\ decimal(SubSeq(data, 1, take_while(data, Digit)))
                  >= 2^63 + (IF negative THEN 1 ELSE 0)
    THEN NomErr
    ELSE Ok([rest |-> SubSeq(data, take_while(data, Digit) + 1, Len(data)),
             out |-> (IF negative THEN -1 ELSE 1)
                        * decimal(SubSeq(data, 1, take_while(data, Digit)))])

\* nom::character::complete::i64: an optional sign, then digits
i64(data) ==
    IF data # <<>> /\ Head(data) = "-" THEN i64_digits(Tail(data), TRUE)
    ELSE IF data # <<>> /\ Head(data) = "+" THEN i64_digits(Tail(data), FALSE)
    ELSE i64_digits(data, FALSE)

\* parser.unwrap_or((data, out)): the parser's result, or nothing consumed
unwrap_or(r, data, out) == IF r.ok THEN r.v ELSE [rest |-> data, out |-> out]

\* let (data, _) = multispace0(data)?: multispace0 accepts every input
skip(data) == multispace0(data).v.rest

\* WpiLibStructPrimitives::try_from(&str)
try_from(value) ==
    CASE value = <<"b", "o", "o", "l">> -> Some("Bool")
      [] value = <<"c", "h", "a", "r">> -> Some("Char")
      [] value = <<"i", "n", "t", "8">> -> Some("Int8")
      [] value = <<"i", "n", "t", "1", "6">> -> Some("Int16")
      [] value = <<"i", "n", "t", "3", "2">> -> Some("Int32")
      [] value = <<"i", "n", "t", "6", "4">> -> Some("Int64")
      [] value = <<"u", "i", "n", "t", "8">> -> Some("Uint8")
      [] value = <<"u", "i", "n", "t", "1", "6">> -> Some("Uint16")
      [] value = <<"u", "i", "n", "t", "3", "2">> -> Some("Uint32")
      [] value = <<"u", "i", "n", "t", "6", "4">> -> Some("Uint64")
      [] value \in {<<"f", "l", "o", "a", "t">>, <<"f", "l", "o", "a", "t", "3", "2">>}
            -> Some("Float")
      [] value \in {<<"d", "o", "u", "b", "l", "e">>, <<"f", "l", "o", "a", "t", "6", "4">>}
            -> Some("Double")
      [] OTHER -> None

\* UnresolvedWpiLibStructType::from(Cow<str>)
type_from(value) ==
    IF try_from(value).some THEN Primitive(try_from(value).v) ELSE Custom(value)

\* WpiLibStructValues::Enum
Enum(values) == [kind |-> "Enum", values |-> values]

RECURSIVE enum_entries(_, _)
\* one `identifier = value` of the loop of enum_parser, with its optional `;`
enum_entry(new_data, values) ==
    and_then(identifier(new_data), LAMBDA id :
    and_then(tag(<<"=">>, skip(id.rest)), LAMBDA eq :
    and_then(i64(skip(eq.rest)), LAMBDA value :
        enum_entries(unwrap_or(tag(<<";">>, skip(value.rest)), skip(value.rest), <<>>).rest,
                     insert(values, id.out, value.out)))))

\* the loop of enum_parser
enum_entries(data, values) ==
    IF tag(<<"}">>, skip(data)).ok
    THEN Ok([rest |-> tag(<<"}">>, skip(data)).v.rest, out |-> values])
    ELSE enum_entry(skip(data), values)

\* enum_parser: an optional `enum`, `{`, the entries, `}`
enum_parser(data) ==
    and_then(tag(<<"{">>, skip(unwrap_or(tag(<<"e", "n", "u", "m">>, data), data, <<>>).rest)),
             LAMBDA open : enum_entries(open.rest, <<>>))

\* delimited(tag("["), (multispace0, usize, multispace0), tag("]"))
\*     .map(|(_, n, _)| NonZeroUsize::new(n))
struct_count(data) ==
    and_then(tag(<<"[">>, data), LAMBDA open :
    and_then(usize(skip(open.rest)), LAMBDA n :
    and_then(tag(<<"]">>, skip(n.rest)), LAMBDA close :
        Ok([rest |-> close.rest, out |-> IF n.out = 0 THEN None ELSE Some(n.out)]))))

\* the (rest, (name, WpiLibStructData)) that struct_parser returns, c being
\* the (rest, count) of the count parser; an identifier is ASCII, which
\* String::from_utf8_lossy leaves as it is
struct_field(c, wpienum, typename, identifier_name) ==
    [rest |-> c.rest,
     out |-> [name |-> identifier_name,
              inner |-> WpiLibStructData(c.out,
                            IF wpienum.some THEN Enum(wpienum.v) ELSE Value,
                            type_from(typename))]]

\* struct_parser from identifier(data).unwrap() on, id being its result
struct_named(id, wpienum, typename) ==
    IF ~id.ok THEN Panicked("called Result::unwrap() on an Err value")
    ELSE Ok(struct_field(unwrap_or(struct_count(skip(id.v.rest)), skip(id.v.rest), None),
                         wpienum, typename, id.v.out))

\* struct_parser after the enum block, e being (rest, Option of the legend)
struct_typed(e) ==
    and_then(identifier(skip(e.rest)), LAMBDA typename :
    and_then(multispace1(typename.rest), LAMBDA ws :
        struct_named(identifier(ws.rest), e.out, typename.out)))

\* struct_parser
struct_parser(data) ==
    struct_typed(unwrap_or(map(enum_parser(data),
                               LAMBDA e : [rest |-> e.rest, out |-> Some(e.out)]),
                           data, None))

RECURSIVE parse_loop(_, _)
\* the loop of WpiLibStructSchema::parse after struct_parser returned r
parse_step(r, fields) ==
    IF r.ok
    THEN IF tag(<<";">>, r.v.rest).ok
         THEN parse_loop(tag(<<";">>, r.v.rest).v.rest,
                         insert(fields, r.v.out.name, r.v.out.inner))
         ELSE Ok(Schema(insert(fields, r.v.out.name, r.v.out.inner)))
    ELSE IF r.e = "Panic" THEN r
    ELSE Ok(Schema(fields))

\* the loop of WpiLibStructSchema::parse
parse_loop(data, fields) == parse_step(struct_parser(skip(data)), fields)

\* WpiLibStructSchema::parse
WpiLibStructSchema_parse(data) == parse_loop(data, <<>>)

(***************************************************************************)
(* src/src/values/mod.rs: decoding of one payload.                         *)
(***************************************************************************)
Arrow(a) == [t |-> "Arrow", a |-> a]
ArrayArrow(v) == [t |-> "ArrayArrow", v |-> v]
StructSchema(s) == [t |-> "StructSchema", s |-> s]
Map(m) == [t |-> "Map", m |-> m]
ArrayMap(v) == [t |-> "ArrayMap", v |-> v]

Array(dt, vals) == [dt |-> dt, vals |-> vals]

\* EntryValue::datatype_size
datatype_size(ty) ==
    CASE ty \in {"Binary", "Utf8"} -> None
      [] ty = "Boolean" -> Some(1)
      [] ty = "Float32" -> Some(4)
      [] ty \in {"Int64", "Float64"} -> Some(8)
      [] OTHER -> None

\* EntryValue::parse_datatype_single
parse_datatype_single(data, ty) ==
    CASE ty = "Binary" -> Ok(Array("Binary", <<data>>))
      [] ty = "Boolean" ->
            Ok(Array("Boolean", IF data = <<>> THEN <<>> ELSE <<data[1] # 0>>))
      [] ty = "Int64" ->
            IF Len(data) >= 8
            THEN Ok(Array("Int64", <<i64_from_le_bytes(SubSeq(data, 1, 8))>>))
            ELSE ErrOther("not enough data for int64")
      [] ty = "Float32" ->
            IF Len(data) >= 4
            THEN Ok(Array("Float32", <<from_le_bytes(SubSeq(data, 1, 4))>>))
            ELSE ErrOther("not enough data for float")
      [] ty = "Float64" ->
            IF Len(data) >= 8
            THEN Ok(Array("Float64", <<from_le_bytes(SubSeq(data, 1, 8))>>))
            ELSE ErrOther("not enough data for double")
      [] ty = "Utf8" -> Ok(Array("Utf8", <<from_utf8_lossy(data)>>))
      [] OTHER -> ErrOther("unsupported datatype")


\* data.windows(size).map(f).collect::<Result<_, _>>()
collect_windows(w, F(_)) == collect([i \in 1..Len(w) |-> F(w[i])])

\* EntryValue::parse_datatype
parse_datatype(data, is_array, ty) ==
    IF is_array
    THEN IF ~datatype_size(ty).some THEN ErrOther("datatype cannot be used as an array")
         ELSE map(collect_windows(windows(data, datatype_size(ty).v),
                                  LAMBDA d : parse_datatype_single(d, ty)),
                  LAMBDA array : ArrayArrow(array))
    ELSE map(parse_datatype_single(data, ty), LAMBDA array : Arrow(array))

\* nom take(n): (rest, taken)
take(data, n) ==
    IF Len(data) < n THEN ErrOther("take: Eof")
    ELSE Ok([rest |-> SubSeq(data, n + 1, Len(data)), taken |-> SubSeq(data, 1, n)])

\* EntryValue::parse_from_primitive: (rest, value)
parse_from_primitive(data, field, ty) ==
    and_then(take(data, size(ty) * (IF field.count.some THEN field.count.v ELSE 1)),
             LAMBDA t : map(parse_datatype(t.taken, field.count.some, datatype(ty)),
                            LAMBDA value : [rest |-> t.rest, value |-> value]))

RECURSIVE parse_fields(_, _, _, _)
RECURSIVE parse_from_struct_single(_, _)
\* the body of the loop of parse_from_struct_single: (rest, value of the field)
parse_field(data, field) ==
    IF field.ty.kind = "Primitive"
    THEN parse_from_primitive(data, field, field.ty.p)
    ELSE map(parse_from_struct_single(data, field.ty.s),
             LAMBDA r : [rest |-> r.rest, value |-> Map(r.map)])

\* the loop of parse_from_struct_single over schema.fields, from position i
\* of the iteration order of this HashMap instance
parse_fields(data, schema, i, new_map) ==
    IF i > Len(schema.iter) THEN Ok([rest |-> data, map |-> new_map])
    ELSE and_then(parse_field(data, schema.fields[schema.iter[i]]),
                  LAMBDA this : parse_fields(this.rest, schema, i + 1,
                                             insert(new_map, schema.iter[i], this.value)))

\* EntryValue::parse_from_struct_single: (rest, map)
parse_from_struct_single(data, schema) == parse_fields(data, schema, 1, <<>>)

(***************************************************************************)
(* Schema resolver: WpiLibStructSchema::resolve and ::size are called by   *)
(* src/src/values/mod.rs but defined in no file of src/; they follow       *)
(* section 4.3 of the specification.  The oracle o gives, per nesting      *)
(* depth, the iteration order of the HashMap instances built here.         *)
(***************************************************************************)
iter_of(fields, perm) == SelectSeq(perm, LAMBDA n : n \in DOMAIN fields)

RECURSIVE resolve_fields(_, _, _, _, _, _)
RECURSIVE resolve(_, _, _, _)
\* the resolved type of one field, or the missing name
resolve_type(ty, struct_map, o, d) ==
    IF ty.kind = "Primitive" THEN Ok(ty)
    ELSE IF ty.s \notin DOMAIN struct_map THEN [ok |-> FALSE, missing |-> ty.s]
    ELSE map(resolve(struct_map[ty.s], struct_map, o, d + 1), LAMBDA s : Custom(s))

resolve_fields(schema, struct_map, o, d, i, acc) ==
    IF i > Len(iter_of(schema.fields, o[d]))
    THEN Ok([fields |-> acc, iter |-> iter_of(schema.fields, o[d])])
    ELSE and_then(resolve_type(schema.fields[iter_of(schema.fields, o[d])[i]].ty,
                               struct_map, o, d),
                  LAMBDA ty : resolve_fields(schema, struct_map, o, d, i + 1,
                        insert(acc, iter_of(schema.fields, o[d])[i],
                               [schema.fields[iter_of(schema.fields, o[d])[i]]
                                    EXCEPT !.ty = ty])))

\* WpiLibStructSchema<Unresolved>::resolve: the resolved schema, or the
\* innermost missing name
resolve(schema, struct_map, o, d) == resolve_fields(schema, struct_map, o, d, 1, <<>>)

RECURSIVE schema_size(_)
RECURSIVE size_fields(_, _)
\* the bytes of one field: element width times max(count, 1)
field_size(field) ==
    (IF field.ty.kind = "Primitive" THEN size(field.ty.p) ELSE schema_size(field.ty.s))
        * (IF field.count.some THEN field.count.v ELSE 1)

size_fields(schema, i) ==
    IF i > Len(schema.iter) THEN 0
    ELSE field_size(schema.fields[schema.iter[i]]) + size_fields(schema, i + 1)

\* WpiLibStructSchema<Resolved>::size
schema_size(schema) == size_fields(schema, 1)

\* the array branch of parse_from_struct, sz being schema.size()
parse_struct_array(data, schema, sz) ==
    IF sz = 0 THEN Panicked("windows: window size must be non-zero")
    ELSE IF collect_windows(windows(data, sz),
                            LAMBDA d : parse_from_struct_single(d, schema)).ok
    THEN Ok(ArrayMap([i \in 1..Len(windows(data, sz)) |->
                        parse_from_struct_single(windows(data, sz)[i], schema).v.map]))
    ELSE Panicked("called Result::unwrap() on an Err value")

\* EntryValue::parse_from_struct
parse_from_struct(data, schema, is_array) ==
    IF is_array THEN parse_struct_array(data, schema, schema_size(schema))
    ELSE map(parse_from_struct_single(data, schema), LAMBDA r : Map(r.map))

\* the DataType of the wire types that parse_from_wpilog hands to parse_datatype
wire_datatype(ty) ==
    CASE ty = <<"raw">> -> "Binary"
      [] ty = <<"boolean">> -> "Boolean"
      [] ty = <<"int64">> -> "Int64"
      [] ty = <<"float">> -> "Float32"
      [] ty = <<"double">> -> "Float64"
      [] ty = <<"string">> -> "Utf8"

\* the `struct:` branch of parse_from_wpilog once the schema is resolved or not
parse_resolved(data, resolved, is_array) ==
    IF ~resolved.ok THEN StructNotFound(resolved.missing)
    ELSE parse_from_struct(data, resolved.v, is_array)

\* the match of parse_from_wpilog on the tag without its array suffix
parse_tag(ty, is_array, data, struct_map, o) ==
    IF ty \in {<<"raw">>, <<"boolean">>, <<"int64">>, <<"float">>, <<"double">>, <<"string">>}
    THEN parse_datatype(data, is_array, wire_datatype(ty))
    ELSE IF ty = <<"json">> THEN ErrOther("json not implemented")
    ELSE IF ty = <<"structschema">>
    THEN map(WpiLibStructSchema_parse(data), LAMBDA s : StructSchema(s))
    ELSE IF Len(ty) > 0 /\ Head(ty) = "struct:"
    THEN IF ty \notin DOMAIN struct_map THEN StructNotFound(ty)
         ELSE parse_resolved(data, resolve(struct_map[ty], struct_map, o, 1), is_array)
    ELSE ErrOther("unknown data type")

\* EntryValue::parse_from_wpilog
parse_from_wpilog(ty, data, struct_map, o) ==
    IF Len(ty) > 0 /\ Last(ty) = "[]"
    THEN parse_tag(Front(ty), TRUE, data, struct_map, o)
    ELSE parse_tag(ty, FALSE, data, struct_map, o)

(***************************************************************************)
(* src/src/log.rs: EntryLog.  A store value st has the four fields of the  *)
(* struct; the operations return the store they leave behind, what they    *)
(* return ("Ok", "Err", or "Panic" when the call unwinds), the leaf writes *)
(* they made, in order, and the queued tuples they replayed, in order.     *)
(***************************************************************************)
EntryLog(entries, changed, struct_map, queued_structs) ==
    [entries |-> entries, changed |-> changed,
     struct_map |-> struct_map, queued_structs |-> queued_structs]

\* EntryLog::new
new == EntryLog(<<>>, {}, <<>>, <<>>)

Done(st, ret, written, replayed) ==
    [st |-> st, ret |-> ret, written |-> written, replayed |-> replayed]

\* a BTreeMap insert that loses the entries after the inserted timestamp
btree_insert_truncating(m, ts, val) ==
    SelectSeq(m, LAMBDA e : e.ts < ts) \o <<[ts |-> ts, val |-> val]>>

\* BTreeMap<Timestamp, ArrayRef>::insert: the map is the sequence of its
\* (ts, val) pairs in increasing order of ts
btree_insert(m, ts, val) ==
    SelectSeq(m, LAMBDA e : e.ts < ts) \o <<[ts |-> ts, val |-> val]>>
        \o SelectSeq(m, LAMBDA e : e.ts > ts)

\* EntityPath::join, ::from_single_string, ::from_file_path of one component
join(a, b) == a \o b
from_single_string(str) == <<str>>
\* usize::to_string
to_string(i) == <<ToString(i)>>

\* an add_struct that keeps the schema already registered (entry().or_insert)
add_struct_keep_first(st, name, s) ==
    IF name \in DOMAIN st.struct_map THEN st
    ELSE [st EXCEPT !.struct_map = insert(st.struct_map, name, s)]

\* EntryLog::add_struct
add_struct(st, name, s) == [st EXCEPT !.struct_map = insert(st.struct_map, name, s)]

\* a leaf write that marks the pair changed only when the path is new
write_leaf_mark_new_only(st, key, timestamp, array) ==
    [st EXCEPT
        !.entries = insert(st.entries, key,
            btree_insert(IF key \in DOMAIN st.entries THEN st.entries[key] ELSE <<>>,
                         timestamp, array)),
        !.changed = IF key \in DOMAIN st.entries THEN st.changed
                    ELSE st.changed \cup {<<key, timestamp>>}]

\* EntryLog::add_entryvalue, Arrow branch: one leaf write
write_leaf(st, key, timestamp, array) ==
    [st EXCEPT
        !.entries = insert(st.entries, key,
            btree_insert(IF key \in DOMAIN st.entries THEN st.entries[key] ELSE <<>>,
                         timestamp, array)),
        !.changed = st.changed \cup {<<key, timestamp>>}]

RECURSIVE leaves(_, _)
RECURSIVE map_leaves(_, _, _)
RECURSIVE array_leaves(_, _, _)
RECURSIVE array_leaves_from_one(_, _, _)
\* the leaf writes of add_entryvalue / handle_array for a decoded value that
\* holds no schema, in the order in which they are made
leaves(key, value) ==
    CASE value.t = "Arrow" -> <<[key |-> key, val |-> value.a]>>
      [] value.t = "Map" -> map_leaves(key, value.m, DOMAIN value.m)
      [] value.t = "ArrayMap" ->
            <<[key |-> join(key, from_single_string(<<"length">>)),
               val |-> Array("Int64", <<Len(value.v)>>)]>>
            \o array_leaves(key, [i \in 1..Len(value.v) |-> Map(value.v[i])], 1)
      [] value.t = "ArrayArrow" ->
            <<[key |-> join(key, from_single_string(<<"length">>)),
               val |-> Array("Int64", <<Len(value.v)>>)]>>
            \o array_leaves(key, [i \in 1..Len(value.v) |-> Arrow(value.v[i])], 1)

\* the Map branch: one recursive call per (k, v) of the map
map_leaves(key, m, todo) ==
    IF todo = {} THEN <<>>
    ELSE LET k == CHOOSE x \in todo : TRUE
         IN leaves(join(key, from_single_string(k)), m[k])
            \o map_leaves(key, m, todo \ {k})

\* a loop of handle_array that numbers the elements from 1
array_leaves_from_one(path, arr, i) ==
    IF i > Len(arr) THEN <<>>
    ELSE leaves(join(path, from_single_string(to_string(i))), arr[i])
         \o array_leaves_from_one(path, arr, i + 1)

\* the loop of handle_array: element i (from 0) goes to path/i
array_leaves(path, arr, i) ==
    IF i > Len(arr) THEN <<>>
    ELSE leaves(join(path, from_single_string(to_string(i - 1))), arr[i])
         \o array_leaves(path, arr, i + 1)

RECURSIVE write_all(_, _, _)
\* the leaf writes ls applied in order: one add_entryvalue(Arrow) per leaf
write_all(st, timestamp, ls) ==
    IF ls = <<>> THEN st
    ELSE write_all(write_leaf(st, Head(ls).key, timestamp, Head(ls).val),
                   timestamp, Tail(ls))


\* the tuple (key, timestamp, type, data) that add_entry pushes on a queue
queued(key, timestamp, ty, value) == [key |-> key, ts |-> timestamp, ty |-> ty, data |-> value]

\* queued_structs.entry(name).or_default().push(tuple)
push(st, name, tuple) ==
    [st EXCEPT !.queued_structs =
        insert(@, name, Append(IF name \in DOMAIN @ THEN @[name] ELSE <<>>, tuple))]

RECURSIVE add_entry(_, _, _, _, _, _, _)
RECURSIVE add_entryvalue(_, _, _, _, _)
RECURSIVE replay(_, _, _, _, _, _)

\* a match that queues under the tuple's own tag instead of the missing name
match_parsed_queue_by_tag(st, key, timestamp, ty, value, v, os) ==
    IF v.ok THEN add_entryvalue(st, key, timestamp, v.v, os)
    ELSE IF v.e = "StructNotFound"
    THEN Done(push(st, ty, queued(key, timestamp, ty, value)), "Ok", <<>>, <<>>)
    ELSE IF v.e = "Panic" THEN Done(st, "Panic", <<>>, <<>>)
    ELSE Done(st, "Err", <<>>, <<>>)

\* the match of add_entry on v, the result of parse_from_wpilog
match_parsed(st, key, timestamp, ty, value, v, os) ==
    IF v.ok THEN add_entryvalue(st, key, timestamp, v.v, os)
    ELSE IF v.e = "StructNotFound"
    THEN Done(push(st, v.name, queued(key, timestamp, ty, value)), "Ok", <<>>, <<>>)
    ELSE IF v.e = "Panic" THEN Done(st, "Panic", <<>>, <<>>)
    ELSE Done(st, "Err", <<>>, <<>>)

\* EntryLog::add_entry; o is the iteration order of the HashMaps built by
\* this decode, os those of the decodes of the replays it triggers
add_entry(st, key, timestamp, ty, value, o, os) ==
    match_parsed(st, key, timestamp, ty, value,
                 parse_from_wpilog(ty, value, st.struct_map, o), os)

\* self.add_entry(...).unwrap() on tuple q of the drained list, r being what
\* the add_entry did
unwrap_replayed(queue, i, os, written, replayed, q, r) ==
    IF r.ret = "Ok"
    THEN replay(r.st, queue, i + 1, os, written \o r.written,
                Append(replayed, [q |-> q, ret |-> r.ret, written |-> r.written]))
    ELSE Done(r.st, "Panic", written \o r.written,
              Append(replayed, [q |-> q, ret |-> r.ret, written |-> r.written]))

\* the for loop of the StructSchema branch, from tuple i of the drained list
replay(st, queue, i, os, written, replayed) ==
    IF i > Len(queue) THEN Done(st, "Ok", written, replayed)
    ELSE unwrap_replayed(queue, i, os, written, replayed, queue[i],
            add_entry(st, queue[i].key, queue[i].ts, queue[i].ty, queue[i].data,
                      os[i], <<>>))

\* a drain whose loop goes over the removed list twice
drain_twice(st, name, os) ==
    IF name \in DOMAIN st.queued_structs
    THEN replay([st EXCEPT !.queued_structs = remove(@, name)],
                st.queued_structs[name] \o st.queued_structs[name], 1, os \o os,
                <<>>, <<>>)
    ELSE Done(st, "Ok", <<>>, <<>>)

\* if let Some(queued) = self.queued_structs.remove(&name) { for ... }
drain(st, name, os) ==
    IF name \in DOMAIN st.queued_structs
    THEN replay([st EXCEPT !.queued_structs = remove(@, name)],
                st.queued_structs[name], 1, os, <<>>, <<>>)
    ELSE Done(st, "Ok", <<>>, <<>>)

\* the leaf writes ls made at timestamp, and the store they leave
write_leaves(st, timestamp, ls) ==
    Done(write_all(st, timestamp, ls), "Ok",
         [i \in 1..Len(ls) |-> [key |-> ls[i].key, ts |-> timestamp, val |-> ls[i].val]],
         <<>>)

\* key.last().unwrap_or("struct:Unknown")
schema_name(key) == IF key = <<>> THEN <<"struct:", "Unknown">> ELSE Last(key)

\* EntryLog::add_entryvalue
add_entryvalue(st, key, timestamp, value, os) ==
    IF value.t = "StructSchema"
    THEN drain(add_struct(st, schema_name(key), value.s), schema_name(key), os)
    ELSE write_leaves(st, timestamp, leaves(key, value))

\* the value stored at (key, time), as an Option
stored(entries, key, time) ==
    IF key \in DOMAIN entries /\ \E i \in 1..Len(entries[key]) : entries[key][i].ts = time
    THEN Some((CHOOSE e \in {entries[key][i] : i \in 1..Len(entries[key])} : e.ts = time).val)
    ELSE None

\* a get_changed that reads the changed set without draining it
get_changed_no_drain(st) ==
    LET hits == {c \in st.changed : stored(st.entries, c[1], c[2]).some}
    IN [out |-> [x \in {<<c[1], c[2], stored(st.entries, c[1], c[2]).v>> : c \in hits} |-> 1],
        st |-> st]

\* EntryLog::get_changed: the returned Vec, as the bag of its elements (the
\* order of a drained HashSet is unspecified)
get_changed(st) ==
    LET hits == {c \in st.changed : stored(st.entries, c[1], c[2]).some}
    IN [out |-> [x \in {<<c[1], c[2], stored(st.entries, c[1], c[2]).v>> : c \in hits} |-> 1],
        st |-> [st EXCEPT !.changed = {}]]

\* a get_latest_from over the exclusive range ..time
get_latest_from_exclusive(st, key, time) ==
    IF key \notin DOMAIN st.entries THEN None
    ELSE LET range == SelectSeq(st.entries[key], LAMBDA e : e.ts < time)
         IN IF range = <<>> THEN None ELSE Some(Last(range))

\* EntryLog::get_latest_from: entry.range(..=time).last()
get_latest_from(st, key, time) ==
    IF key \notin DOMAIN st.entries THEN None
    ELSE LET range == SelectSeq(st.entries[key], LAMBDA e : e.ts <= time)
         IN IF range = <<>> THEN None ELSE Some(Last(range))

\* EntryLog::get_latest_entry: BTreeMap::last_key_value
get_latest_entry(st, key) ==
    IF key \notin DOMAIN st.entries \/ st.entries[key] = <<>> THEN None
    ELSE Some(Last(st.entries[key]))

(***************************************************************************)
(* The inputs of the exploration.                                          *)
(***************************************************************************)
fa == <<"a">>
fb == <<"b">>
\* the iteration orders the HashMaps of one decode can have, one per nesting
\* depth; every nested schema of Schemas has one field, hence one order
Oracle == {<<fa, fb>>, <<fb, fa>>} \X {<<fa, fb>>}
\* a decode of a tag that names no struct builds no HashMap
OraclesFor(ty) ==
    IF Len(ty) > 0 /\ Head(ty) = "struct:" THEN Oracle
    ELSE {<<<<fa, fb>>, <<fa, fb>>>>}

Foo == <<"struct:", "Foo">>
Bar == <<"Bar">>

Field(p) == WpiLibStructData(None, Value, Primitive(p))

\* "bool a; bool b", "bool a", "int8 a", "Bar a; bool b", "" under Foo;
\* "bool a", "bool a[2]" under Bar
Schemas(name) ==
    IF name = Foo
    THEN {Schema(fa :> Field("Bool") @@ fb :> Field("Bool")),
          Schema(fa :> Field("Bool")),
          Schema(fa :> Field("Int8")),
          Schema(fa :> WpiLibStructData(None, Value, Custom(Bar)) @@ fb :> Field("Bool")),
          Schema(<<>>)}
    ELSE {Schema(fa :> Field("Bool")),
          Schema(fa :> WpiLibStructData(Some(2), Value, Primitive("Bool")))}

DataKeys == {<<<<"x">>>>}
SchemaKeys == {<<<<".schema">>, Foo>>, <<<<".schema">>, Bar>>}
Timestamps == 1..MaxTime
Tags == {<<"boolean">>, <<"boolean", "[]">>, <<"int64">>, Foo, Foo \o <<"[]">>}
Bytes == 0..MaxByte
Payloads == UNION {[1..n -> Bytes] : n \in 0..MaxLen}

(***************************************************************************)
(* The state: the four fields of the EntryLog, whether the thread that     *)
(* owns it has panicked, and the observations the properties are about:    *)
(* the last call with what it returned (last; for a registration, out is   *)
(* the schema it replaced), and the (path, timestamp) pairs written since  *)
(* the last get_changed (since).                                           *)
(***************************************************************************)
VARIABLES entries, changed, struct_map, queued_structs, panicked, nops, last, since

vars == <<entries, changed, struct_map, queued_structs, panicked, nops, last, since>>

Store == EntryLog(entries, changed, struct_map, queued_structs)

Call(op, key, ts, ty, data, s, ret, written, replayed, out) ==
    [op |-> op, key |-> key, ts |-> ts, ty |-> ty, data |-> data, s |-> s,
     ret |-> ret, written |-> written, replayed |-> replayed, out |-> out]

NoSchema == Schema(<<>>)

Init ==
    /\ entries = new.entries
    /\ changed = new.changed
    /\ struct_map = new.struct_map
    /\ queued_structs = new.queued_structs
    /\ panicked = FALSE
    /\ nops = 0
    /\ last = Call("new", <<>>, 0, <<>>, <<>>, NoSchema, "Ok", <<>>, <<>>, None)
    /\ since = {}

Becomes(st) ==
    /\ entries' = st.entries
    /\ changed' = st.changed
    /\ struct_map' = st.struct_map
    /\ queued_structs' = st.queued_structs

\* the schema registered under name, which HashMap::insert replaces
Registered(name) == IF name \in DOMAIN struct_map THEN Some(struct_map[name]) ELSE None

Keys(written) == {<<written[i].key, written[i].ts>> : i \in 1..Len(written)}

\* log.add_entry(key, timestamp, ty, value)
AddEntry(key, timestamp, ty, value, o) ==
    /\ ~panicked /\ nops < MaxOps
    /\ \E r \in {add_entry(Store, key, timestamp, ty, value, o, <<>>)} :
          /\ Becomes(r.st)
          /\ panicked' = (r.ret = "Panic")
          /\ last' = Call("add_entry", key, timestamp, ty, value, NoSchema,
                          r.ret, r.written, r.replayed, None)
          /\ since' = since \cup Keys(r.written)
    /\ nops' = nops + 1

\* log.add_entryvalue(key, timestamp, EntryValue::StructSchema(s)): what
\* add_entry does with a `structschema` payload that parses to s
RegisterSchema(key, timestamp, s, os) ==
    /\ ~panicked /\ nops < MaxOps
    /\ \E r \in {add_entryvalue(Store, key, timestamp, StructSchema(s), os)} :
          /\ Becomes(r.st)
          /\ panicked' = (r.ret = "Panic")
          /\ last' = Call("register", key, timestamp, <<"structschema">>, <<>>, s,
                          r.ret, r.written, r.replayed, Registered(Last(key)))
          /\ since' = since \cup Keys(r.written)
    /\ nops' = nops + 1

\* log.add_struct(name, s)
AddStruct(name, s) ==
    /\ ~panicked /\ nops < MaxOps
    /\ Becomes(add_struct(Store, name, s))
    /\ last' = Call("add_struct", <<name>>, 0, <<>>, <<>>, s, "Ok", <<>>, <<>>,
                    Registered(name))
    /\ nops' = nops + 1
    /\ UNCHANGED <<panicked, since>>

\* log.get_changed()
GetChanged ==
    /\ ~panicked /\ nops < MaxOps
    /\ \E r \in {get_changed(Store)} :
          /\ Becomes(r.st)
          /\ last' = Call("get_changed", <<>>, 0, <<>>, <<>>, NoSchema, "Ok", <<>>, <<>>,
                          Some(r.out))
    /\ since' = {}
    /\ nops' = nops + 1
    /\ UNCHANGED panicked

\* log.get_latest_from(key, time)
GetLatestFrom(key, time) ==
    /\ ~panicked /\ nops < MaxOps
    /\ last' = Call("get_latest_from", key, time, <<>>, <<>>, NoSchema, "Ok", <<>>, <<>>,
                    get_latest_from(Store, key, time))
    /\ nops' = nops + 1
    /\ UNCHANGED <<entries, changed, struct_map, queued_structs, panicked, since>>

Pending(name) == IF name \in DOMAIN queued_structs THEN queued_structs[name] ELSE <<>>

Next ==
    \/ \E key \in DataKeys, t \in Timestamps, ty \in Tags, value \in Payloads :
         \E o \in OraclesFor(ty) : AddEntry(key, t, ty, value, o)
    \/ \E key \in SchemaKeys, t \in Timestamps :
         \E s \in Schemas(Last(key)), os \in [1..Len(Pending(Last(key))) -> Oracle] :
            RegisterSchema(key, t, s, os)
    \/ \E key \in SchemaKeys : \E s \in Schemas(Last(key)) : AddStruct(Last(key), s)
    \/ GetChanged
    \/ \E key \in DataKeys, t \in 0..MaxTime + 1 : GetLatestFrom(key, t)

Spec == Init /\ [][Next]_vars

(***************************************************************************)
(* Properties.                                                             *)
(***************************************************************************)
\* a tag without its array suffix
Stripped(ty) == IF Len(ty) > 0 /\ Last(ty) = "[]" THEN Front(ty) ELSE ty

\* the tuple add_entry queues for its arguments
Tuple(c) == [key |-> c.key, ts |-> c.ts, ty |-> c.ty, data |-> c.data]

Names == {Last(k) : k \in SchemaKeys}

\* the store without the tuple at the end of the pending list of name
WithoutLast(st, name) ==
    [st EXCEPT !.queued_structs =
        IF Len(@[name]) = 1 THEN remove(@, name)
        ELSE insert(@, name, Front(@[name]))]

\* the store after registering s at key and then adding the tuple q
RegisterThenAdd(st, key, ts, s, q, os, o) ==
    LET r == add_entryvalue(st, key, ts, StructSchema(s), os)
    IN IF r.ret # "Ok" THEN r.st
       ELSE add_entry(r.st, q.key, q.ts, q.ty, q.data, o, <<>>).st

\* C1: order-independence of deferred resolution.  When a schema is
\* registered under a name that was not registered, and the last tuple that
\* add_entry queued under that name carries the tag struct:<name> (or
\* struct:<name>[]), the entries stored after the registration are the
\* entries stored by the other order: the registration made without that
\* tuple pending, followed by add_entry of the tuple.
C1_OrderIndependence ==
    [][\A name \in Names :
        ( /\ last'.op = "register" /\ Last(last'.key) = name
          /\ name \notin DOMAIN struct_map
          /\ Pending(name) # <<>>
          /\ Stripped(Last(Pending(name)).ty) = name )
        => \A os \in [1..Len(Pending(name)) - 1 -> Oracle], o \in Oracle :
              entries' = RegisterThenAdd(WithoutLast(Store, name), last'.key, last'.ts,
                                         last'.s, Last(Pending(name)), os, o).entries
      ]_vars

\* C2: an add_entry whose struct schema cannot be resolved returns Ok, appends
\* exactly its (path, timestamp, tag, bytes) at the end of the pending list of
\* the missing name, and leaves entries, changed and the registry unchanged.
C2_DeferOnMissingSchema ==
    [][\A o \in Oracle :
        LET v == parse_from_wpilog(last'.ty, last'.data, struct_map, o)
        IN (last'.op = "add_entry" /\ ~v.ok /\ v.e = "StructNotFound")
           => /\ last'.ret = "Ok"
              /\ queued_structs' =
                    insert(queued_structs, v.name, Append(Pending(v.name), Tuple(last')))
              /\ UNCHANGED <<entries, changed, struct_map>>
      ]_vars

\* an add_entry has just been deferred under a name that differs from its tag
C2_Witness ==
    /\ last.op = "add_entry" /\ last.ret = "Ok" /\ last.written = <<>>
    /\ Bar \in DOMAIN queued_structs
    /\ Last(queued_structs[Bar]) = Tuple(last)
    /\ Len(queued_structs[Bar]) > 1

\* C3: a registration under a name removes the whole pending list of exactly
\* that name and replays each of its tuples once, in the order in which they
\* were queued; the pending lists of the other names are only appended to.
C3_DrainInOrder ==
    [][last'.op = "register" =>
        LET name == Last(last'.key)
        IN /\ [i \in 1..Len(last'.replayed) |-> last'.replayed[i].q] = Pending(name)
           /\ name \notin DOMAIN queued_structs'
           /\ \A n \in DOMAIN queued_structs \ {name} :
                /\ n \in DOMAIN queued_structs'
                /\ SubSeq(queued_structs'[n], 1, Len(queued_structs[n])) = queued_structs[n]
      ]_vars

\* the (path, timestamp) pairs of a store's entries
Pairs(es) == UNION {{<<key, es[key][i].ts>> : i \in 1..Len(es[key])} : key \in DOMAIN es}

\* C4: get_changed is drain-once: a get_changed with no write since the
\* previous get_changed returns nothing.
C4_DrainOnce ==
    [][(last'.op = "get_changed" /\ since = {}) => last'.out = Some(EmptyBag)]_vars

\* a get_changed has returned nothing although leaves are stored: an earlier
\* get_changed drained them
C4_Witness ==
    /\ last.op = "get_changed" /\ last.out = Some(EmptyBag)
    /\ entries # <<>>

\* C5: get_changed returns, once each, exactly the (path, timestamp, value) of
\* the leaves written since the previous get_changed, with the value that is
\* stored now.
C5_ChangedIsWhatWasWritten ==
    [][last'.op = "get_changed" =>
        /\ \A c \in since : stored(entries, c[1], c[2]).some
        /\ last'.out =
              Some([x \in {<<c[1], c[2], stored(entries, c[1], c[2]).v>> : c \in since} |-> 1])
      ]_vars

\* the last of the operations is a get_changed that has returned several
\* leaves, written by the operations before it
C5_Witness ==
    /\ last.op = "get_changed" /\ last.out.some
    /\ Cardinality(DOMAIN last.out.v) >= 2
    /\ nops = MaxOps

\* the answer get_latest_from is to give: the entry of key with the greatest
\* stored timestamp that is at most time
LatestAtOrBefore(es, key, time) ==
    LET ts == {p[2] : p \in {q \in Pairs(es) : q[1] = key /\ q[2] <= time}}
    IN IF ts = {} THEN None
       ELSE LET m == CHOOSE t \in ts : \A u \in ts : u <= t
            IN Some([ts |-> m, val |-> stored(es, key, m).v])

\* C6: get_latest_from(path, t) returns the entry of path with the greatest
\* stored timestamp <= t, and none when there is no such entry.
C6_LatestAtOrBefore ==
    last.op = "get_latest_from" => last.out = LatestAtOrBefore(entries, last.key, last.ts)

\* the path holds two timestamps t1 < t2 and a query at t with t1 <= t < t2
\* has returned the entry of t1
C6_Witness ==
    /\ last.op = "get_latest_from" /\ last.out.some
    /\ \E p \in Pairs(entries) : p[1] = last.key /\ p[2] > last.ts
    /\ last.out.v.ts <= last.ts

\* the value an operation's writes leave at (key, ts): that of its last write there
FinalWrite(written, key, ts) ==
    LET is == {i \in 1..Len(written) : written[i].key = key /\ written[i].ts = ts}
    IN written[CHOOSE i \in is : \A j \in is : j <= i].val

\* C7: the per-path timestamp maps only grow: every stored (path, timestamp)
\* stays stored, with its value unless the operation writes there; a write
\* leaves its value at its (path, timestamp), replacing the value held there
\* or adding the pair; nothing else appears.
C7_OnlyGrows ==
    [][/\ \A p \in Pairs(entries) :
            /\ p \in Pairs(entries')
            /\ p \notin Keys(last'.written)
                => stored(entries', p[1], p[2]) = stored(entries, p[1], p[2])
       /\ \A p \in Keys(last'.written) :
            stored(entries', p[1], p[2]) = Some(FinalWrite(last'.written, p[1], p[2]))
       /\ Pairs(entries') \subseteq Pairs(entries) \cup Keys(last'.written)
      ]_vars

\* an add_entry has written at a path that holds two timestamps
C7_Witness ==
    /\ last.op = "add_entry" /\ last.written # <<>>
    /\ \E p \in Pairs(entries) :
          /\ p \notin Keys(last.written)
          /\ \E q \in Keys(last.written) : q[1] = p[1]

\* C8: failure isolation: an add_entry whose decode fails for another reason
\* than a missing struct schema returns the failure to its caller and leaves
\* the entries, the changed set, the registry and the pending lists as they
\* were.
C8_FailureIsolation ==
    [][\A o \in Oracle :
        LET v == parse_from_wpilog(last'.ty, last'.data, struct_map, o)
        IN (last'.op = "add_entry" /\ ~v.ok /\ v.e # "StructNotFound")
           => /\ last'.ret = "Err"
              /\ UNCHANGED <<entries, changed, struct_map, queued_structs>>
      ]_vars

\* C9: no operation of the store panics, whatever the tags, the payloads and
\* the schemas.
C9_NeverPanics == ~panicked

\* C10: the registry holds, per name, the schema of the last registration: a
\* registration puts its schema, whole, under its name and changes no other
\* name, no other operation changes the registry, and an add_entry of
\* `struct:<name>` that decodes writes the fields of the schema registered
\* under the name.
C10_LastRegistrationWins ==
    [][/\ last'.op \in {"register", "add_struct"} =>
            /\ DOMAIN struct_map' = DOMAIN struct_map \cup {Last(last'.key)}
            /\ struct_map'[Last(last'.key)] = last'.s
            /\ \A n \in DOMAIN struct_map \ {Last(last'.key)} :
                    struct_map'[n] = struct_map[n]
       /\ last'.op \notin {"register", "add_struct"} => struct_map' = struct_map
       /\ ( /\ last'.op = "add_entry" /\ last'.ret = "Ok"
            /\ last'.ty \in DOMAIN struct_map
            /\ queued_structs' = queued_structs )
          => {last'.written[i].key[Len(last'.key) + 1] : i \in 1..Len(last'.written)}
                = DOMAIN struct_map[last'.ty].fields
      ]_vars

\* a registration has replaced a different schema registered under its name
C10_Witness ==
    /\ last.op \in {"register", "add_struct"}
    /\ last.out.some /\ last.out.v # last.s
    /\ struct_map[Last(last.key)] = last.s

(***************************************************************************)
(* The schema grammar and the struct decoder as functions of their input:  *)
(* a second specification, whose actions apply them to schema texts and    *)
(* payloads and record the call in last; a behaviour is one call (the      *)
(* functions keep no state).  A schema text is written from a list of      *)
(* fields, so that the fields a text declares, and their order, are known. *)
(***************************************************************************)
MaxFields == 2

bool_t == <<"b", "o", "o", "l">>
int8_t == <<"i", "n", "t", "8">>
enum_t == <<"e", "n", "u", "m">>
Bar_t == <<"B", "a", "r">>

\* the type names of the texts, with the type each one names
TypeNames ==
    {[text |-> bool_t, ty |-> Primitive("Bool")],
     [text |-> int8_t, ty |-> Primitive("Int8")],
     [text |-> Bar_t, ty |-> Custom(Bar_t)]}
FieldNames == {fa, fb}
Counts == {None, Some(0), Some(2)}
\* the whitespace written wherever the grammar allows it
Spaces == {<<>>, <<" ">>}
\* the separators of the entries of an enum block
Separators == {<<",">>, <<";">>, <<>>}
\* the entries of an enum block, (identifier, integer) in the order written
Legends == {<<>>, <<<<fa, 1>>>>, <<<<fa, 1>>, <<fb, 2>>>>}
EnumBlocks ==
    {[entries |-> <<>>, sep |-> <<>>]}
        \cup {[entries |-> l, sep |-> sep] : l \in Legends \ {<<>>}, sep \in Separators}

\* a field as it is written: [enum_block] typename identifier ['[' n ']']
PlainFields ==
    {[enum |-> None, ty |-> t, name |-> n, count |-> c] :
        t \in TypeNames, n \in FieldNames, c \in Counts}
EnumFields ==
    {[enum |-> Some(e), ty |-> t, name |-> n, count |-> c] :
        e \in EnumBlocks, t \in TypeNames, n \in FieldNames, c \in Counts}
\* the lists of fields written in a text: one field, or fields of distinct names
FieldLists ==
    {<<f>> : f \in PlainFields \cup EnumFields}
        \cup {fl \in [1..MaxFields -> PlainFields] :
                \A i, j \in 1..MaxFields : i # j => fl[i].name # fl[j].name}

RECURSIVE render_entries(_, _, _)
render_entries(es, sep, w) ==
    IF es = <<>> THEN <<>>
    ELSE Head(es)[1] \o w \o <<"=">> \o w \o <<Digits[Head(es)[2] + 1]>> \o w
            \o sep \o w \o render_entries(Tail(es), sep, w)

render_enum(e, w) ==
    enum_t \o w \o <<"{">> \o w \o render_entries(e.entries, e.sep, w) \o <<"}">> \o w

render_count(count, w) ==
    IF count.some THEN <<"[">> \o w \o <<Digits[count.v + 1]>> \o w \o <<"]">> ELSE <<>>

render_field(f, w) ==
    (IF f.enum.some THEN render_enum(f.enum.v, w) ELSE <<>>)
        \o f.ty.text \o <<" ">> \o w \o f.name \o w \o render_count(f.count, w)

RECURSIVE render_fields(_, _)
render_fields(fl, w) ==
    IF Len(fl) = 1 THEN render_field(fl[1], w)
    ELSE render_field(Head(fl), w) \o w \o <<";">> \o w \o render_fields(Tail(fl), w)

\* the text of a list of fields, with whitespace w between all its tokens
render(fl, w) == w \o render_fields(fl, w) \o w

\* texts that are no field: a type name with no field name, a number, a bracket
BadFields ==
    {bool_t \o <<" ">>, bool_t, bool_t \o <<" ", "2">>, <<"2">>, <<"[">>, <<"=">>}
\* the fields of a text, then `;`, then a text that is no field
BadTexts ==
    BadFields
        \cup {render(<<f>>, w) \o <<";">> \o w \o bad :
                f \in PlainFields, w \in Spaces, bad \in BadFields}
SchemaTexts == {render(fl, w) : fl \in FieldLists, w \in Spaces}

\* the orders in which a HashMap of the keys S can iterate
Orders(S) == {o \in [1..Cardinality(S) -> S] : {o[i] : i \in 1..Cardinality(S)} = S}

\* a call of a function: its arguments, how it ended, what it returned
Applied(op, args, ret, out) == [op |-> op, args |-> args, ret |-> ret, out |-> out]
\* how a call that returned the Result r ended
Ended(r) == IF r.ok THEN "Ok" ELSE IF r.e = "Panic" THEN "Panic" ELSE "Err"

\* EntryValue::parse_from_wpilog("structschema", text, ..)
DecodeSchema(text) ==
    /\ ~panicked /\ nops = 0
    /\ \E r \in {parse_from_wpilog(<<"structschema">>, text, <<>>, <<>>)} :
          /\ last' = Applied("structschema", [text |-> text], Ended(r), r)
          /\ panicked' = (Ended(r) = "Panic")
    /\ nops' = nops + 1
    /\ UNCHANGED <<entries, changed, struct_map, queued_structs, since>>

\* EntryValue::parse_from_wpilog("struct:Foo", data, ..) with the schema that
\* text parses to registered as struct:Foo, its HashMap iterating in order o
DecodeStruct(text, data) ==
    /\ ~panicked /\ nops = 0
    /\ \E s \in {WpiLibStructSchema_parse(text)} :
          /\ s.ok
          /\ \E o \in Orders(DOMAIN s.v.fields) :
                \E r \in {parse_from_wpilog(Foo, data, Foo :> s.v, <<o>>)} :
                   /\ last' = Applied("struct", [text |-> text, data |-> data, o |-> o],
                                      Ended(r), r)
                   /\ panicked' = (Ended(r) = "Panic")
    /\ nops' = nops + 1
    /\ UNCHANGED <<entries, changed, struct_map, queued_structs, since>>

\* WpiLibStructPrimitives::size
Size(p) ==
    /\ ~panicked /\ nops = 0
    /\ last' = Applied("size", [p |-> p], "Ok", size(p))
    /\ nops' = nops + 1
    /\ UNCHANGED <<entries, changed, struct_map, queued_structs, panicked, since>>

\* EntryValue::parse_from_primitive(data, field, ty)
ParseFromPrimitive(data, count, p) ==
    /\ ~panicked /\ nops = 0
    /\ \E r \in {parse_from_primitive(data, WpiLibStructData(count, Value, Primitive(p)), p)} :
          last' = Applied("parse_from_primitive", [data |-> data, count |-> count, p |-> p],
                          Ended(r), r)
    /\ nops' = nops + 1
    /\ UNCHANGED <<entries, changed, struct_map, queued_structs, panicked, since>>

\* the texts decoded against: fields without enum block
StructTexts == {render(fl, <<>>) : fl \in {g \in FieldLists : \A i \in 1..Len(g) : ~g[i].enum.some}}

\* EntryValue::parse_from_wpilog("struct:Foo[]", data, ..) with the schema that
\* text parses to registered as struct:Foo, its HashMap iterating in order o
DecodeStructArray(text, data) ==
    /\ ~panicked /\ nops = 0
    /\ \E s \in {WpiLibStructSchema_parse(text)} :
          /\ s.ok
          /\ \E o \in Orders(DOMAIN s.v.fields) :
                \E r \in {parse_from_wpilog(Foo \o <<"[]">>, data, Foo :> s.v, <<o>>)} :
                   /\ last' = Applied("struct[]", [text |-> text, data |-> data, o |-> o],
                                      Ended(r), r)
                   /\ panicked' = (Ended(r) = "Panic")
    /\ nops' = nops + 1
    /\ UNCHANGED <<entries, changed, struct_map, queued_structs, since>>

\* the payloads of struct arrays: up to four bytes
ArrayPayloads ==
    Payloads \cup {<<0, 1, 1>>, <<1, 0, 0>>, <<0, 1, 1, 0>>, <<1, 1, 0, 1>>, <<1, 0, 0, 1>>}

\* the wire types of parse_from_wpilog that name no struct, by element width
\* (0: no fixed width)
WireWidth(ty) ==
    CASE ty = <<"boolean">> -> 1
      [] ty = <<"float">> -> 4
      [] ty \in {<<"int64">>, <<"double">>} -> 8
      [] ty \in {<<"raw">>, <<"string">>} -> 0
WireTypes == {<<"boolean">>, <<"float">>, <<"int64">>, <<"double">>, <<"raw">>, <<"string">>}

\* payloads of 0, 1, 2 and 3 elements of width 1, 4 and 8, payloads that are
\* short of an element, texts, and string arrays of 0, 1 and 2 strings
WirePayloads(w) ==
    CASE w = 1 -> {<<>>, <<1>>, <<0, 1>>, <<1, 0, 1>>}
      [] w = 4 -> {<<>>, <<1, 0, 0>>, <<1, 0, 0, 0>>, <<1, 0, 0, 0, 2, 0, 0, 0>>,
                   <<1, 0, 0, 0, 2, 0, 0, 0, 3, 0, 0, 0>>, <<1, 2, 3, 4, 5>>}
      [] w = 8 -> {<<>>, <<3, 0, 0, 0, 0, 0, 0>>, <<3, 0, 0, 0, 0, 0, 0, 0>>,
                   <<3, 0, 0, 0, 0, 0, 0, 0, 0>>,
                   <<1, 2>> \o [i \in 1..14 |-> 0]}
      [] w = 0 -> {<<>>, <<97>>, <<97, 255>>, <<0, 0, 0, 0>>,
                   <<1, 0, 0, 0, 1, 0, 0, 0, 97>>,
                   <<2, 0, 0, 0, 1, 0, 0, 0, 97, 0, 0, 0, 0>>,
                   <<2, 0, 0, 0, 1, 0, 0, 0, 97, 2, 0, 0, 0, 98, 255>>}

\* EntryLog::new().add_entry(x, 1, ty, data) for a wire type that names no
\* struct: the decoded value, and what the store holds afterwards
AddWire(ty, data) ==
    /\ ~panicked /\ nops = 0
    /\ \E v \in {parse_from_wpilog(ty, data, <<>>, <<>>)} :
       \E r \in {add_entry(new, <<<<"x">>>>, 1, ty, data, <<>>, <<>>)} :
          /\ last' = Applied("add_entry", [ty |-> ty, data |-> data], r.ret,
                             [value |-> v, written |-> r.written, st |-> r.st])
          /\ panicked' = (r.ret = "Panic")
    /\ nops' = nops + 1
    /\ UNCHANGED <<entries, changed, struct_map, queued_structs, since>>

\* log.add_entry(".schema/struct:Foo", 1, "structschema", text) on a store in
\* which log.add_entry("x", 1, "struct:Foo", data) has just been deferred
RegisterText(text, data, os) ==
    /\ ~panicked /\ nops = 0
    /\ \E p \in {add_entry(new, <<<<"x">>>>, 1, Foo, data, <<>>, <<>>)} :
          \E r \in {add_entry(p.st, <<<<".schema">>, Foo>>, 1, <<"structschema">>, text,
                              <<>>, os)} :
             /\ last' = Applied("register_text", [text |-> text, data |-> data], r.ret,
                                [before |-> p.st, after |-> r.st, replayed |-> r.replayed])
             /\ panicked' = (r.ret = "Panic")
    /\ nops' = nops + 1
    /\ UNCHANGED <<entries, changed, struct_map, queued_structs, since>>

\* schema texts that parse whole, beside the malformed ones
GoodTexts == {render(<<f>>, <<>>) : f \in PlainFields}

SchemaNext ==
    \/ \E text \in SchemaTexts \cup BadTexts : DecodeSchema(text)
    \/ \E text \in StructTexts, data \in Payloads : DecodeStruct(text, data)
    \/ \E p \in WpiLibStructPrimitives : Size(p)
    \/ \E data \in Payloads, count \in Counts \ {Some(0)}, p \in WpiLibStructPrimitives :
         ParseFromPrimitive(data, count, p)
    \/ \E text \in StructTexts, data \in ArrayPayloads : DecodeStructArray(text, data)
    \/ \E ty \in WireTypes, suffix \in {<<>>, <<"[]">>} :
         \E data \in WirePayloads(WireWidth(ty)) : AddWire(ty \o suffix, data)
    \/ \E text \in BadTexts \cup GoodTexts, data \in {<<>>, <<1>>}, os \in [1..1 -> Oracle] :
         RegisterText(text, data, os)

SchemaSpec == Init /\ [][SchemaNext]_vars

(***************************************************************************)
(* Properties of the schema grammar and of the struct decoder.             *)
(***************************************************************************)
\* the lists of fields without enum block
PlainLists == {fl \in FieldLists : \A i \in 1..Len(fl) : ~fl[i].enum.some}

\* the name-to-integer legend that the entries of an enum block declare
Legend(es) ==
    [n \in {es[i][1] : i \in 1..Len(es)} |->
        (CHOOSE e \in {es[i] : i \in 1..Len(es)} : e[1] = n)[2]]

\* the field that the written field f declares: a count of 0 is no count
ExpectedField(f) ==
    WpiLibStructData(IF f.count.some /\ f.count.v >= 1 THEN f.count ELSE None,
                     IF f.enum.some THEN Enum(Legend(f.enum.v.entries)) ELSE Value,
                     f.ty.ty)

\* the schema that the written list of fields declares
Expected(fl) ==
    Schema([n \in {fl[i].name : i \in 1..Len(fl)} |->
                ExpectedField(fl[CHOOSE i \in 1..Len(fl) : fl[i].name = n])])

\* the bytes that a written field of a primitive type takes
Taken(f) == size(f.ty.ty.p) * (IF f.count.some /\ f.count.v >= 1 THEN f.count.v ELSE 1)

RECURSIVE Offset(_, _)
\* where field k of the list starts: the sum of the sizes of the fields before it
Offset(fl, k) == IF k = 1 THEN 0 ELSE Offset(fl, k - 1) + Taken(fl[k - 1])

\* field k of the list decoded from the bytes at its offset
FieldAt(fl, k, data) ==
    parse_datatype(SubSeq(data, Offset(fl, k) + 1, Offset(fl, k) + Taken(fl[k])),
                   fl[k].count.some /\ fl[k].count.v >= 1, datatype(fl[k].ty.ty.p))

\* C11: a struct is decoded in the order in which the schema text declares
\* its fields: when the payload decodes, field k has the value of the bytes
\* that start at the sum of the sizes of the fields written before it.
C11_DeclaredOrder ==
    \A fl \in PlainLists :
        (last.op = "struct" /\ last.args.text = render(fl, <<>>) /\ last.ret = "Ok")
        => \A k \in 1..Len(fl) : Ok(last.out.v.m[fl[k].name]) = FieldAt(fl, k, last.args.data)

\* the byte width of each primitive of the struct grammar
Width(p) ==
    CASE p \in {"Bool", "Char", "Int8", "Uint8"} -> 1
      [] p \in {"Int16", "Uint16"} -> 2
      [] p \in {"Int32", "Uint32", "Float"} -> 4
      [] p \in {"Int64", "Uint64", "Double"} -> 8

\* C12: the size of a primitive is 1, 2, 4 or 8 bytes as its name says, and a
\* field of a primitive type takes that width times max(count, 1) bytes of
\* the payload.
C12_PrimitiveWidths ==
    /\ last.op = "size" => last.out = Width(last.args.p)
    /\ (last.op = "parse_from_primitive" /\ last.ret = "Ok")
        => Len(last.args.data) - Len(last.out.v.rest)
              = Width(last.args.p) * (IF last.args.count.some THEN last.args.count.v ELSE 1)

\* C18: parsing a schema text never fails and never aborts, and a text whose
\* fields are followed by one that does not parse gives the fields before it.
C18_PartialSuccess ==
    last.op = "structschema"
    => /\ last.ret = "Ok"
       /\ \A bad \in BadFields :
            /\ last.args.text = bad => last.out.v = StructSchema(Schema(<<>>))
            /\ \A f \in PlainFields, w \in Spaces :
                  last.args.text = render(<<f>>, w) \o <<";">> \o w \o bad
                  => last.out.v = StructSchema(Expected(<<f>>))

\* C19: a text of fields `typename identifier [n]` separated by `;`, with or
\* without whitespace between its tokens, parses to exactly the fields it
\* declares: the name, the primitive or custom type, and the count n >= 1.
C19_FieldText ==
    \A fl \in PlainLists, w \in Spaces :
        (last.op = "structschema" /\ last.args.text = render(fl, w))
        => /\ last.ret = "Ok"
           /\ last.out.v = StructSchema(Expected(fl))

\* C20: an enum block in front of a field, its entries separated by `,`, by
\* `;` or by nothing, is recorded as the legend of the field, whose type,
\* name and count are those of the field without the block.
C20_EnumBlock ==
    \A f \in EnumFields, w \in Spaces :
        (last.op = "structschema" /\ last.args.text = render(<<f>>, w))
        => /\ last.ret = "Ok"
           /\ last.out.v = StructSchema(Expected(<<f>>))

(***************************************************************************)
(* src/src/wpilog/parse.rs: the framing of a WPILOG byte stream.  A byte   *)
(* is a number in 0..255 and a String is the sequence of its UTF-8 bytes;  *)
(* a streaming nom parser returns (rest, out), or fails with Incomplete    *)
(* (more input is needed), Error (recoverable) or Failure.                 *)
(***************************************************************************)
Incomplete(needed) == [ok |-> FALSE, e |-> "Incomplete", needed |-> needed]
Error(err) == [ok |-> FALSE, e |-> "Error", err |-> err]
Failure(err) == [ok |-> FALSE, e |-> "Failure", err |-> err]

\* ParseError
InvalidFormat(kind) == <<"InvalidFormat", kind>>
InvalidVersion == <<"InvalidVersion">>
InvalidString == <<"InvalidString">>
EOF == <<"EOF">>

\* nom::bytes::streaming::take
streaming_take(input, n) ==
    IF Len(input) < n THEN Incomplete(n - Len(input)) ELSE Parsed(input, n)

\* nom::number::streaming::u8, le_u16, le_u32: n bytes, little-endian
streaming_le(input, n) ==
    map(streaming_take(input, n),
        LAMBDA t : [rest |-> t.rest, out |-> from_le_bytes(t.out)])

\* nom::bytes::streaming::tag: Error at the first byte that differs,
\* Incomplete when the input is a proper prefix of the tag
streaming_tag(t, input) ==
    IF \E i \in 1..Len(t) : i <= Len(input) /\ input[i] # t[i]
    THEN Error(InvalidFormat("Tag"))
    ELSE IF Len(input) < Len(t) THEN Incomplete(Len(t) - Len(input))
    ELSE Parsed(input, Len(t))

\* a continuation byte of UTF-8
cont(b) == b \in 128..191

RECURSIVE from_utf8(_)
\* std::str::from_utf8(..).is_ok(): the bytes are well-formed UTF-8
from_utf8(b) ==
    IF b = <<>> THEN TRUE
    ELSE IF b[1] < 128 THEN from_utf8(Tail(b))
    ELSE IF b[1] \in 194..223
    THEN Len(b) >= 2 /\ cont(b[2]) /\ from_utf8(SubSeq(b, 3, Len(b)))
    ELSE IF b[1] \in 224..239
    THEN /\ Len(b) >= 3 /\ cont(b[2]) /\ cont(b[3])
         /\ (b[1] = 224 => b[2] >= 160) /\ (b[1] = 237 => b[2] <= 159)
         /\ from_utf8(SubSeq(b, 4, Len(b)))
    ELSE IF b[1] \in 240..244
    THEN /\ Len(b) >= 4 /\ cont(b[2]) /\ cont(b[3]) /\ cont(b[4])
         /\ (b[1] = 240 => b[2] >= 144) /\ (b[1] = 244 => b[2] <= 143)
         /\ from_utf8(SubSeq(b, 5, Len(b)))
    ELSE FALSE

\* parse_string
parse_string(input, len) ==
    and_then(streaming_take(input, len),
             LAMBDA t : IF from_utf8(t.out) THEN Ok(t) ELSE Failure(InvalidString))

\* RecordHeaderLengths::size_entry_id, size_payload_len, size_timestamp
size_entry_id(b) == (b % 4) + 1
size_payload_len(b) == ((b \div 4) % 4) + 1
\* a reading of the timestamp width from two bits of the control byte
size_timestamp_two_bits(b) == ((b \div 16) % 4) + 1
size_timestamp(b) == ((b \div 16) % 8) + 1

\* WpiRecord::parse_dyn_int: size is at most 8, the bytes are zero-extended
parse_dyn_int(input, sz) == streaming_le(input, sz)

\* Payload::Start, Finish, SetMetadata, Raw
Start(entry_id, entry_name, entry_type, entry_metadata) ==
    [t |-> "Start", entry_id |-> entry_id, entry_name |-> entry_name,
     entry_type |-> entry_type, entry_metadata |-> entry_metadata]
Finish(entry_id) == [t |-> "Finish", entry_id |-> entry_id]
SetMetadata(entry_id, entry_metadata) ==
    [t |-> "SetMetadata", entry_id |-> entry_id, entry_metadata |-> entry_metadata]
Raw(entry_id, data) == [t |-> "Raw", entry_id |-> entry_id, data |-> data]

WpiRecord(timestamp, payload) == [timestamp |-> timestamp, payload |-> payload]

\* debug_assert!(input.is_empty()) before a control record is returned: a
\* build with debug assertions panics, a build without them does not
debug_assert_empty(input, debug, r) ==
    IF debug /\ input # <<>> THEN Panicked("didn't consume all input") ELSE r

\* a length-prefixed string of a control record: le_u32, then parse_string
parse_lp_string(input) ==
    and_then(streaming_le(input, 4), LAMBDA len : parse_string(len.rest, len.out))

\* the Start arm of WpiRecord::parse
parse_start(input, leftover, timestamp, entry_id, debug) ==
    and_then(parse_lp_string(input), LAMBDA entry_name :
    and_then(parse_lp_string(entry_name.rest), LAMBDA entry_type :
    and_then(parse_lp_string(entry_type.rest), LAMBDA entry_metadata :
        debug_assert_empty(entry_metadata.rest, debug,
            Ok([rest |-> leftover,
                out |-> WpiRecord(timestamp, Start(entry_id, entry_name.out,
                                                   entry_type.out, entry_metadata.out))])))))

\* the SetMetadata arm of WpiRecord::parse
parse_set_metadata(input, leftover, timestamp, entry_id, debug) ==
    and_then(parse_lp_string(input), LAMBDA entry_metadata :
        debug_assert_empty(entry_metadata.rest, debug,
            Ok([rest |-> leftover,
                out |-> WpiRecord(timestamp, SetMetadata(entry_id, entry_metadata.out))])))

START_CONTROL_RECORD == 0
FINISH_CONTROL_RECORD == 1
SET_METADATA_CONTROL_RECORD == 2

\* the match on control_record_type
parse_control_type(control_record_type, input, leftover, timestamp, entry_id, debug) ==
    IF control_record_type = START_CONTROL_RECORD
    THEN parse_start(input, leftover, timestamp, entry_id, debug)
    ELSE IF control_record_type = FINISH_CONTROL_RECORD
    THEN debug_assert_empty(input, debug,
            Ok([rest |-> leftover, out |-> WpiRecord(timestamp, Finish(entry_id))]))
    ELSE IF control_record_type = SET_METADATA_CONTROL_RECORD
    THEN parse_set_metadata(input, leftover, timestamp, entry_id, debug)
    ELSE Failure(InvalidFormat("Tag"))

\* the entry_id == 0 branch of WpiRecord::parse; input is the payload
parse_control(input, leftover, timestamp, debug) ==
    and_then(streaming_le(input, 1), LAMBDA control_record_type :
    and_then(streaming_le(control_record_type.rest, 4), LAMBDA entry_id :
        parse_control_type(control_record_type.out, entry_id.rest, leftover,
                           timestamp, entry_id.out, debug)))

\* WpiRecord::parse after the three integers of the record header; the entry
\* id was read from at most four bytes, so `entry_id as u32` keeps its value
parse_payload(payload, entry_id, timestamp, debug) ==
    IF entry_id = 0 THEN parse_control(payload.out, payload.rest, timestamp, debug)
    ELSE Ok([rest |-> payload.rest,
             out |-> WpiRecord(timestamp, Raw(entry_id, payload.out))])

\* WpiRecord::parse after the control byte
parse_lengths(input, lengths, debug) ==
    and_then(parse_dyn_int(input, size_entry_id(lengths)), LAMBDA entry_id :
    and_then(parse_dyn_int(entry_id.rest, size_payload_len(lengths)), LAMBDA payload_len :
    and_then(parse_dyn_int(payload_len.rest, size_timestamp(lengths)), LAMBDA timestamp :
    and_then(streaming_take(timestamp.rest, payload_len.out), LAMBDA payload :
        parse_payload(payload, entry_id.out, timestamp.out, debug)))))

\* WpiRecord::parse: no byte at all is Error(EOF)
WpiRecord_parse(input, debug) ==
    IF input = <<>> THEN Error(EOF)
    ELSE parse_lengths(Tail(input), Head(input), debug)

\* b"WPILOG"
MAGIC == <<87, 80, 73, 76, 79, 71>>

\* the only accepted version, 0x0100
VERSION == 256

\* a header read that takes any version
parse_version_unchecked(input) ==
    and_then(streaming_le(input, 2), LAMBDA version :
        and_then(parse_lp_string(version.rest), LAMBDA extra_header :
            Ok([rest |-> extra_header.rest,
                out |-> <<version.out, extra_header.out>>])))

\* WpiLogFile::parse_header after the magic
parse_version(input) ==
    and_then(streaming_le(input, 2), LAMBDA version :
        IF version.out # VERSION THEN Failure(InvalidVersion)
        ELSE and_then(parse_lp_string(version.rest), LAMBDA extra_header :
                Ok([rest |-> extra_header.rest,
                    out |-> <<version.out, extra_header.out>>])))

\* WpiLogFile::parse_header
parse_header(input) ==
    and_then(streaming_tag(MAGIC, input), LAMBDA m : parse_version(m.rest))

RECURSIVE many0_newest_first(_, _, _)
\* a collection of the records that puts each new record in front
many0_newest_first(input, acc, debug) ==
    LET r == WpiRecord_parse(input, debug) IN
    IF r.ok
    THEN IF Len(r.v.rest) = Len(input) THEN Error(InvalidFormat("Many0"))
         ELSE many0_newest_first(r.v.rest, <<r.v.out>> \o acc, debug)
    ELSE IF r.e = "Error" THEN Ok([rest |-> input, out |-> acc])
    ELSE r

RECURSIVE many0(_, _, _)
\* nom::multi::many0(WpiRecord::parse): collects records until the parser
\* returns Error, and passes Incomplete and Failure on
many0(input, acc, debug) ==
    LET r == WpiRecord_parse(input, debug) IN
    IF r.ok
    THEN IF Len(r.v.rest) = Len(input) THEN Error(InvalidFormat("Many0"))
         ELSE many0(r.v.rest, Append(acc, r.v.out), debug)
    ELSE IF r.e = "Error" THEN Ok([rest |-> input, out |-> acc])
    ELSE r

WpiLogFile(version, extra_header, records) ==
    [version |-> version, extra_header |-> extra_header, records |-> records]

\* WpiLogFile::parse
WpiLogFile_parse(input, debug) ==
    and_then(parse_header(input), LAMBDA h :
        map(many0(h.rest, <<>>, debug), LAMBDA m :
            [rest |-> m.rest, out |-> WpiLogFile(h.out[1], h.out[2], m.out)]))

(***************************************************************************)
(* FrameSpec: one call of the framer on a byte stream.  The streams are    *)
(* written from descriptions of records and files, as a WPILOG writer      *)
(* lays them out, and then damaged or cut short.                           *)
(***************************************************************************)
MaxRecords == 3
LongPayload == 256

RECURSIVE to_le_bytes(_, _)
\* the w low bytes of v, least significant first
to_le_bytes(v, w) ==
    IF w = 0 THEN <<>> ELSE <<v % 256>> \o to_le_bytes(v \div 256, w - 1)

\* a string of a control record behind its 4-byte length
lp(str) == to_le_bytes(Len(str), 4) \o str

\* the strings of a control payload, in the order of the layout
strings(p) ==
    IF p.t = "Start" THEN <<p.entry_name, p.entry_type, p.entry_metadata>>
    ELSE IF p.t = "SetMetadata" THEN <<p.entry_metadata>>
    ELSE <<>>

RECURSIVE lps(_)
lps(strs) == IF strs = <<>> THEN <<>> ELSE lp(Head(strs)) \o lps(Tail(strs))

\* the control record type of a control payload
type_of(p) ==
    IF p.t = "Start" THEN START_CONTROL_RECORD
    ELSE IF p.t = "Finish" THEN FINISH_CONTROL_RECORD
    ELSE SET_METADATA_CONTROL_RECORD

\* the payload bytes of a record; damage "type" writes an unknown control
\* type, "utf8" writes the byte 255 in place of every string, "short" drops
\* the last byte of a control payload and "long" adds one
payload_bytes(p, damage) ==
    IF p.t = "Raw" THEN p.data
    ELSE LET ty == IF damage = "type" THEN 3 ELSE type_of(p)
             strs == IF damage = "utf8" THEN [i \in DOMAIN strings(p) |-> <<255>>]
                     ELSE strings(p)
             b == <<ty>> \o to_le_bytes(p.entry_id, 4) \o lps(strs)
         IN  IF damage = "short" THEN Front(b)
             ELSE IF damage = "long" THEN Append(b, 0)
             ELSE b

\* the control byte that selects the three widths; bit 7 is free
control_byte(d) == (d.wid - 1) + 4 * (d.wlen - 1) + 16 * (d.wts - 1) + 128 * d.hi

\* the bytes of the record d
encode_record(d) ==
    LET b == payload_bytes(d.payload, d.damage) IN
    <<control_byte(d)>>
        \o to_le_bytes(IF d.payload.t = "Raw" THEN d.payload.entry_id ELSE 0, d.wid)
        \o to_le_bytes(Len(b), d.wlen)
        \o to_le_bytes(d.timestamp, d.wts)
        \o b

\* numbers that fit w bytes: the least, the greatest of one byte, the least
\* that needs all of the bytes, as far as the numbers of the model reach
Values(w) ==
    {1, 255} \cup (IF w = 2 THEN {256, 65535} ELSE {})
             \cup (IF w = 3 THEN {65536, 16777215} ELSE {})
             \cup (IF w >= 4 THEN {16777216, 2147483647} ELSE {})

Zeros(n) == [i \in 1..n |-> 0]

\* payloads of data records that fit a length of w bytes
DataPayloads(w) ==
    {<<>>, <<7>>, <<0, 255>>} \cup (IF w >= 2 THEN {Zeros(LongPayload)} ELSE {})

Description(hi, wid, wlen, wts, timestamp, payload, damage) ==
    [hi |-> hi, wid |-> wid, wlen |-> wlen, wts |-> wts,
     timestamp |-> timestamp, payload |-> payload, damage |-> damage]

\* data records of every combination of the three widths
RawRecords ==
    UNION {{Description(hi, wid, wlen, wts, ts, Raw(id, data), "none") :
               hi \in {0, 1}, id \in Values(wid), ts \in Values(wts) \cup {0},
               data \in DataPayloads(wlen)} :
           wid \in 1..4, wlen \in 1..4, wts \in 1..8}

\* "", "a", U+00E9
Strings == {<<>>, <<97>>, <<195, 169>>}

ControlPayloads ==
    {Start(id, n, t, <<>>) : id \in {1, 256}, n \in Strings, t \in {<<97>>}}
        \cup {Start(1, <<97>>, <<>>, <<195, 169>>)}
        \cup {Finish(id) : id \in {1, 256}}
        \cup {SetMetadata(1, m) : m \in Strings}

Damages == {"none", "type", "utf8", "short", "long"}

\* control records, whole and damaged
ControlRecords ==
    {Description(0, w[1], w[2], w[3], ts, p, damage) :
        w \in {<<1, 1, 1>>, <<2, 3, 8>>}, ts \in {0, 255}, p \in ControlPayloads,
        damage \in Damages}

\* the records that make up the files
FileRecords ==
    {Description(0, 1, 1, 1, 2, Raw(1, <<7>>), "none"),
     Description(0, 2, 1, 3, 65536, Raw(256, <<>>), "none"),
     Description(0, 1, 1, 1, 1, Start(1, <<97>>, <<97>>, <<>>), "none"),
     Description(0, 1, 1, 1, 3, Finish(1), "none"),
     Description(0, 1, 1, 2, 4, SetMetadata(1, <<195, 169>>), "none"),
     Description(0, 1, 1, 1, 5, Finish(1), "type"),
     Description(0, 1, 1, 1, 6, SetMetadata(1, <<97>>), "utf8"),
     Description(0, 1, 1, 1, 7, Finish(1), "short"),
     Description(0, 1, 1, 1, 8, Finish(1), "long")}

RecordLists == UNION {[1..n -> FileRecords] : n \in 0..MaxRecords}

RECURSIVE encode_records(_)
encode_records(ds) ==
    IF ds = <<>> THEN <<>> ELSE encode_record(Head(ds)) \o encode_records(Tail(ds))

\* the bytes of a file: magic, version, extra header, records
encode_header(f) == f.magic \o to_le_bytes(f.version, 2) \o lp(f.extra_header)
encode_file(f) == encode_header(f) \o encode_records(f.records)

File(magic, version, extra_header, records) ==
    [magic |-> magic, version |-> version, extra_header |-> extra_header,
     records |-> records]

\* WPILOG, and WPILOG with its first or its last byte changed
Magics == {MAGIC, <<0, 80, 73, 76, 79, 71>>, <<87, 80, 73, 76, 79, 70>>}
Versions == {VERSION, 0, 1, 257}
ExtraHeaders == {<<>>, <<97>>, <<255>>}

Headers == {File(m, v, x, <<>>) : m \in Magics, v \in Versions, x \in ExtraHeaders}

\* files with a good header, and files with each header and up to one record
Files ==
    {File(MAGIC, VERSION, x, ds) : x \in {<<>>, <<97>>}, ds \in RecordLists}
        \cup {File(h.magic, h.version, h.extra_header, ds) :
                 h \in Headers, ds \in {ds \in RecordLists : Len(ds) <= 1}}

\* the first n bytes of a stream
Cut(bytes, n) == SubSeq(bytes, 1, n)

\* how a call of the framer ended
Outcome(r) == IF r.ok THEN "Ok" ELSE r.e

\* WpiRecord::parse on the bytes of a record, whole or cut short
ParseRecord(d, n, debug) ==
    /\ ~panicked /\ nops = 0
    /\ \E input \in {Cut(encode_record(d), n)} :
       \E r \in {WpiRecord_parse(input, debug)} :
          /\ last' = Applied("WpiRecord::parse",
                             [made |-> d, input |-> input, debug |-> debug],
                             Outcome(r), r)
          /\ panicked' = (Outcome(r) = "Panic")
    /\ nops' = nops + 1
    /\ UNCHANGED <<entries, changed, struct_map, queued_structs, since>>

\* WpiLogFile::parse_header on the bytes of a header, whole or cut short
ParseHeader(f, n) ==
    /\ ~panicked /\ nops = 0
    /\ \E input \in {Cut(encode_file(f), n)} :
       \E r \in {parse_header(input)} :
          /\ last' = Applied("WpiLogFile::parse_header",
                             [made |-> f, input |-> input], Outcome(r), r)
          /\ panicked' = (Outcome(r) = "Panic")
    /\ nops' = nops + 1
    /\ UNCHANGED <<entries, changed, struct_map, queued_structs, since>>

\* WpiLogFile::parse on the bytes of a file, whole or cut short
ParseFile(f, n, debug) ==
    /\ ~panicked /\ nops = 0
    /\ \E input \in {Cut(encode_file(f), n)} :
       \E r \in {WpiLogFile_parse(input, debug)} :
          /\ last' = Applied("WpiLogFile::parse",
                             [made |-> f, input |-> input, debug |-> debug],
                             Outcome(r), r)
          /\ panicked' = (Outcome(r) = "Panic")
    /\ nops' = nops + 1
    /\ UNCHANGED <<entries, changed, struct_map, queued_structs, since>>

\* the records that are also parsed when cut short
CutRecords ==
    ControlRecords
        \cup {d \in RawRecords : d.wts \in {1, 8} /\ d.hi = 0 /\ Len(d.payload.data) <= 2}
\* the files that are also parsed when cut short
CutFiles == {f \in Files : Len(f.records) <= 2}

\* a whole record
ParseWholeRecord ==
    /\ nops = 0
    /\ \E d \in RawRecords \cup ControlRecords, debug \in BOOLEAN :
          ParseRecord(d, Len(encode_record(d)), debug)

\* a record whose last bytes are missing
ParseCutRecord ==
    /\ nops = 0
    /\ \E d \in CutRecords, debug \in BOOLEAN :
       \E n \in 0..(Len(encode_record(d)) - 1) : ParseRecord(d, n, debug)

\* a header, whole or cut short
ParseAnyHeader ==
    /\ nops = 0
    /\ \E f \in Headers : \E n \in 0..Len(encode_file(f)) : ParseHeader(f, n)

\* a whole file
ParseWholeFile ==
    /\ nops = 0
    /\ \E f \in Files, debug \in BOOLEAN : ParseFile(f, Len(encode_file(f)), debug)

\* a file whose last bytes are missing
ParseCutFile ==
    /\ nops = 0
    /\ \E f \in CutFiles, debug \in BOOLEAN :
       \E n \in 0..(Len(encode_file(f)) - 1) : ParseFile(f, n, debug)

FrameNext ==
    \/ ParseWholeRecord
    \/ ParseCutRecord
    \/ ParseAnyHeader
    \/ ParseWholeFile
    \/ ParseCutFile

FrameSpec == Init /\ [][FrameNext]_vars

(***************************************************************************)
(* Properties of the framer                                                *)
(***************************************************************************)
\* the last call parsed all the bytes of a record that was written undamaged
WholeRecord ==
    /\ last.op = "WpiRecord::parse"
    /\ last.args.made.damage = "none"
    /\ last.args.input = encode_record(last.args.made)

\* C13: a record written with an entry id of 1..4 bytes, a payload length of
\* 1..4 bytes and a timestamp of 1..8 bytes, the widths taken from bits 0-1,
\* 2-3 and 4-6 of its control byte, is parsed back to the entry id, the
\* payload of exactly the written length and the timestamp that were written.
C13_FramingRoundTrip ==
    WholeRecord
    => /\ last.ret = "Ok"
       /\ last.out.v.rest = <<>>
       /\ last.out.v.out.timestamp = last.args.made.timestamp
       /\ last.args.made.payload.t = "Raw"
            => /\ last.out.v.out.payload.t = "Raw"
               /\ last.out.v.out.payload.entry_id = last.args.made.payload.entry_id
               /\ last.out.v.out.payload.data = last.args.made.payload.data

\* a data record with the widest fields, the greatest entry id and timestamp
\* of the model and a payload whose length needs two bytes was parsed back
C13_Witness ==
    /\ WholeRecord /\ last.ret = "Ok"
    /\ last.args.made.wid = 4 /\ last.args.made.wlen = 2 /\ last.args.made.wts = 8
    /\ last.out.v.out.timestamp = 2147483647
    /\ last.out.v.out.payload = Raw(2147483647, Zeros(LongPayload))

\* the last call parsed a header or a file
HeaderCall == last.op \in {"WpiLogFile::parse_header", "WpiLogFile::parse"}

\* C14: an input whose first six bytes are not WPILOG fails with
\* InvalidFormat(Tag), and one whose version after the magic is not 0x0100
\* fails with InvalidVersion; parse_header and WpiLogFile::parse return that
\* failure, and with it no record.
C14_HeaderFatal ==
    HeaderCall
    => /\ (Len(last.args.input) >= 6 /\ last.args.made.magic # MAGIC)
            => last.out = Error(InvalidFormat("Tag"))
       /\ (Len(last.args.input) >= 8 /\ last.args.made.magic = MAGIC
              /\ last.args.made.version # VERSION)
            => last.out = Failure(InvalidVersion)

\* a file with the version 0x0101 and a well-formed record behind its header
\* was parsed, and the parse returned InvalidVersion
C14_Witness ==
    /\ last.op = "WpiLogFile::parse"
    /\ last.args.made.magic = MAGIC /\ last.args.made.version = 257
    /\ Len(last.args.made.records) = 1 /\ last.args.made.records[1].damage = "none"
    /\ last.args.input = encode_file(last.args.made)
    /\ last.out = Failure(InvalidVersion)

\* the lengths at which the bytes of the file f end with its header or with
\* one of its records
Boundaries(f) ==
    {Len(encode_header(f)) + Len(encode_records(SubSeq(f.records, 1, k))) :
        k \in 0..Len(f.records)}

\* the header of f and every record of f are well-formed
WellFormed(f) ==
    /\ f.magic = MAGIC /\ f.version = VERSION /\ f.extra_header \in Strings
    /\ \A k \in 1..Len(f.records) : f.records[k].damage = "none"

\* the input of the last call ends inside a field of the header or of a
\* record: more bytes are needed, and are enough, to complete that field
EndsInsideField ==
    \/ /\ last.op = "WpiLogFile::parse"
       /\ Len(last.args.input) \notin Boundaries(last.args.made)
    \/ /\ last.op = "WpiLogFile::parse_header"
       /\ Len(last.args.input) < Len(encode_header(last.args.made))
    \/ /\ last.op = "WpiRecord::parse"
       /\ 0 < Len(last.args.input)
       /\ Len(last.args.input) < Len(encode_record(last.args.made))

\* the bytes of the last call were written from well-formed parts
WellFormedCall ==
    \/ last.op \in {"WpiLogFile::parse", "WpiLogFile::parse_header"}
          /\ WellFormed(last.args.made)
    \/ last.op = "WpiRecord::parse" /\ last.args.made.damage = "none"

\* C15: the framer returns Incomplete when its input ends inside a field of
\* the header or of a record, and only then, that is only when more bytes
\* could complete the parse.
C15_NeedMoreInput ==
    last.op \in {"WpiLogFile::parse", "WpiLogFile::parse_header", "WpiRecord::parse"}
    => /\ (WellFormedCall /\ EndsInsideField) => last.ret = "Incomplete"
       /\ last.ret = "Incomplete" => EndsInsideField

\* the record was written with an unknown control type or with a control
\* string that is not UTF-8
Malformed(d) ==
    \/ d.damage = "type"
    \/ d.damage = "utf8" /\ strings(d.payload) # <<>>

\* the record a well-formed description is parsed to
Written(d) == WpiRecord(d.timestamp, d.payload)

\* the records that the result r of WpiLogFile::parse hands to the caller
Delivered(r) == IF r.ok THEN r.v.out.records ELSE <<>>

\* the last call parsed all the bytes of a file with a well-formed header
WholeFile ==
    /\ last.op = "WpiLogFile::parse"
    /\ last.args.made.magic = MAGIC /\ last.args.made.version = VERSION
    /\ last.args.made.extra_header \in Strings
    /\ last.args.input = encode_file(last.args.made)

\* C16: when the k-th record of a file is the first malformed one (unknown
\* control type, or a control string that is not UTF-8) and the records before
\* it are well-formed, the caller gets exactly the k - 1 records before it:
\* none from the malformed record on, and the earlier ones are not lost.
C16_RecordFailure ==
    WholeFile
    => \A k \in 1..Len(last.args.made.records) :
          ( /\ Malformed(last.args.made.records[k])
            /\ \A j \in 1..(k - 1) : last.args.made.records[j].damage = "none" )
          => Delivered(last.out) = [j \in 1..(k - 1) |-> Written(last.args.made.records[j])]

\* C17: a valid header followed by n complete well-formed records is parsed
\* to exactly those n records in the order of the stream, with no byte left;
\* a record with entry id 0 is the Start (name, type, metadata), Finish or
\* SetMetadata it was written from, with its 4-byte target id, and a record
\* with another entry id is Raw with that id and exactly the payload bytes.
C17_WellFormedStream ==
    /\ (WholeFile /\ WellFormed(last.args.made))
          => /\ last.ret = "Ok"
             /\ last.out.v.rest = <<>>
             /\ last.out.v.out.version = VERSION
             /\ last.out.v.out.extra_header = last.args.made.extra_header
             /\ last.out.v.out.records
                   = [k \in 1..Len(last.args.made.records) |->
                         Written(last.args.made.records[k])]
    /\ WholeRecord
          => /\ last.ret = "Ok"
             /\ last.out.v.rest = <<>>
             /\ last.out.v.out = Written(last.args.made)

\* a file of three records, a Start, a data record and a SetMetadata, was
\* parsed to these three records in this order
C17_Witness ==
    /\ WholeFile /\ WellFormed(last.args.made) /\ last.ret = "Ok"
    /\ Len(last.out.v.out.records) = 3
    /\ last.out.v.out.records[1].payload = Start(1, <<97>>, <<97>>, <<>>)
    /\ last.out.v.out.records[2].payload = Raw(256, <<>>)
    /\ last.out.v.out.records[3].payload = SetMetadata(1, <<195, 169>>)

(***************************************************************************)
(* Properties of the decoding of wire types and of struct arrays           *)
(***************************************************************************)
\* the consecutive chunks of w bytes of data, without overlap
Chunks(data, w) == [i \in 1..(Len(data) \div w) |-> SubSeq(data, (i - 1) * w + 1, i * w)]

\* the last call added a payload of the array form of a fixed-width wire type
FixedArrayCall ==
    /\ last.op = "add_entry"
    /\ Len(last.args.ty) = 2 /\ Last(last.args.ty) = "[]"
    /\ WireWidth(Front(last.args.ty)) > 0

\* the leaf that a call wrote at the path x/part
LeafAt(written, part) ==
    {written[i].val : i \in {j \in 1..Len(written) : written[j].key = <<<<"x">>, part>>}}

\* C22: a payload of k * width bytes with the tag boolean[], int64[], float[]
\* or double[] decodes to k elements, element i from the i-th chunk of width
\* bytes, and the length leaf that is stored holds k.
C22_FixedWidthArrays ==
    (FixedArrayCall /\ Len(last.args.data) % WireWidth(Front(last.args.ty)) = 0)
    => LET w == WireWidth(Front(last.args.ty))
           chunks == Chunks(last.args.data, w)
       IN /\ last.out.value.ok
          /\ last.out.value.v.t = "ArrayArrow"
          /\ Len(last.out.value.v.v) = Len(chunks)
          /\ \A i \in 1..Len(chunks) :
                Ok(last.out.value.v.v[i])
                   = parse_datatype_single(chunks[i], wire_datatype(Front(last.args.ty)))
          /\ LeafAt(last.out.written, <<"length">>) = {Array("Int64", <<Len(chunks)>>)}

\* the schema of the text of the last call, resolved with the iteration
\* order of the call
Resolved ==
    resolve(WpiLibStructSchema_parse(last.args.text).v,
            Foo :> WpiLibStructSchema_parse(last.args.text).v, <<last.args.o>>, 1)

\* C23: a struct:<Name>[] payload of k * size(schema) bytes decodes to k
\* instances, instance i being the decode of the i-th chunk of size(schema)
\* bytes, which leaves no byte of the chunk.
C23_StructArrays ==
    (last.op = "struct[]" /\ Resolved.ok)
    => LET sz == schema_size(Resolved.v)
           chunks == Chunks(last.args.data, sz)
       IN Len(last.args.data) % sz = 0
          => /\ last.ret = "Ok"
             /\ last.out.v.t = "ArrayMap"
             /\ Len(last.out.v.v) = Len(chunks)
             /\ \A i \in 1..Len(chunks) :
                   parse_from_struct_single(chunks[i], Resolved.v)
                      = Ok([rest |-> <<>>, map |-> last.out.v.v[i]])

RECURSIVE Elements(_, _)
\* the n length-prefixed byte strings that data consists of, as a sequence in
\* a set of one element, or no element when data is not n such strings
Elements(data, n) ==
    IF n = 0 THEN (IF data = <<>> THEN {<<>>} ELSE {})
    ELSE IF Len(data) < 4 \/ Len(data) < 4 + from_le_bytes(SubSeq(data, 1, 4)) THEN {}
    ELSE LET len == from_le_bytes(SubSeq(data, 1, 4))
         IN {<<SubSeq(data, 5, 4 + len)>> \o rest :
                rest \in Elements(SubSeq(data, 5 + len, Len(data)), n - 1)}

\* the strings that a string[] payload holds: a 4-byte count, then the strings
StringArray(data) ==
    IF Len(data) < 4 THEN {}
    ELSE Elements(SubSeq(data, 5, Len(data)), from_le_bytes(SubSeq(data, 1, 4)))

\* C25: a string[] payload made of a little-endian 4-byte count n and n
\* strings, each a little-endian 4-byte length and that many bytes, decodes to
\* an array of exactly these n strings.
C25_StringArrays ==
    (last.op = "add_entry" /\ last.args.ty = <<"string", "[]">>)
    => \A strs \in StringArray(last.args.data) :
          /\ last.out.value.ok
          /\ last.out.value.v
                = ArrayArrow([i \in 1..Len(strs) |->
                                Array("Utf8", <<from_utf8_lossy(strs[i])>>)])

RECURSIVE LittleEndian(_, _)
\* the number that the first w bytes of data are, least significant first
LittleEndian(data, w) ==
    IF w = 0 THEN 0 ELSE Head(data) + 256 * LittleEndian(Tail(data), w - 1)

\* the element that the first bytes of data are for the wire type ty
Scalar(ty, data) ==
    IF ty = <<"boolean">> THEN Array("Boolean", <<data[1] # 0>>)
    ELSE Array(wire_datatype(ty), <<LittleEndian(data, WireWidth(ty))>>)

\* C26: a boolean, float, int64 or double payload with fewer bytes than the
\* width of the type (1, 4, 8, 8) fails to decode with an error that is
\* returned, and nothing is stored; with enough bytes it decodes to the
\* little-endian value of its first width bytes.
C26_FixedWidthScalars ==
    (last.op = "add_entry" /\ Len(last.args.ty) = 1 /\ WireWidth(last.args.ty) > 0)
    => /\ Len(last.args.data) < WireWidth(last.args.ty)
            => /\ ~last.out.value.ok /\ last.out.value.e = "Other"
               /\ last.ret = "Err"
               /\ last.out.written = <<>> /\ last.out.st = new
       /\ Len(last.args.data) >= WireWidth(last.args.ty)
            => /\ last.out.value = Ok(Arrow(Scalar(last.args.ty, last.args.data)))
               /\ last.ret = "Ok"

(***************************************************************************)
(* Properties of the store: flattening, deferral and commutation           *)
(***************************************************************************)
RECURSIVE Flat(_, _)
\* the (path, value) leaves of the value v stored at path p: a field f of a
\* struct at p/f, element i of an array at p/i, the element count at p/length
Flat(p, v) ==
    CASE v.t = "Arrow" -> {[key |-> p, val |-> v.a]}
      [] v.t = "Map" -> UNION {Flat(Append(p, f), v.m[f]) : f \in DOMAIN v.m}
      [] v.t = "ArrayArrow" ->
            {[key |-> Append(p, <<"length">>), val |-> Array("Int64", <<Len(v.v)>>)]}
               \cup UNION {Flat(Append(p, <<ToString(i - 1)>>), Arrow(v.v[i])) :
                              i \in 1..Len(v.v)}
      [] v.t = "ArrayMap" ->
            {[key |-> Append(p, <<"length">>), val |-> Array("Int64", <<Len(v.v)>>)]}
               \cup UNION {Flat(Append(p, <<ToString(i - 1)>>), Map(v.v[i])) :
                              i \in 1..Len(v.v)}

\* the writes are, once each and all at timestamp ts, the leaves of v at p
WritesLeaves(written, p, ts, v) ==
    /\ {[key |-> written[i].key, val |-> written[i].val] : i \in 1..Len(written)}
          = Flat(p, v)
    /\ Len(written) = Cardinality(Flat(p, v))
    /\ \A i \in 1..Len(written) : written[i].ts = ts

\* the call of tag ty and bytes data at (p, ts) under the registry reg either
\* decodes and its writes are the leaves of the decoded value, or it does not
\* decode and writes nothing
Flattened(written, p, ts, ty, data, reg) ==
    \E o \in OraclesFor(ty) :
       \E v \in {parse_from_wpilog(ty, data, reg, o)} :
          IF v.ok THEN WritesLeaves(written, p, ts, v.v) ELSE written = <<>>

\* C24: an add_entry that returns Ok writes one leaf per terminal value of
\* the decoded value: field f of a struct at p under p/f, element i of an
\* array at p under p/i, the element count of every array at p under
\* p/length, no leaf at the path of a composite value, and all of them at the
\* timestamp of the call; a replayed tuple is written in the same way.
C24_Flattening ==
    [][/\ (last'.op = "add_entry" /\ last'.ret = "Ok")
            => Flattened(last'.written, last'.key, last'.ts, last'.ty, last'.data,
                         struct_map)
       /\ last'.op = "register"
            => \A i \in 1..Len(last'.replayed) :
                  last'.replayed[i].ret = "Ok"
                     => Flattened(last'.replayed[i].written, last'.replayed[i].q.key,
                                  last'.replayed[i].q.ts, last'.replayed[i].q.ty,
                                  last'.replayed[i].q.data, struct_map')
      ]_vars

\* an array of two structs has been written: its length 2 and a field of its
\* second element
C24_Witness ==
    /\ last.op = "add_entry" /\ last.ret = "Ok" /\ last.ty = Foo \o <<"[]">>
    /\ \E i, j \in 1..Len(last.written) :
          /\ last.written[i].key = Append(last.key, <<"length">>)
          /\ last.written[i].val = Array("Int64", <<2>>)
          /\ last.written[j].key = last.key \o <<<<"1">>, fa>>

\* the tuples of all pending lists of a queue map
AllPending(q) == UNION {{q[n][i] : i \in 1..Len(q[n])} : n \in DOMAIN q}

\* C29: a registration ends after a bounded number of replays.  Every
\* pending tuple carries a tag that starts with struct:, so the decode of a
\* replayed tuple never gives a schema: the registry changes only at the
\* registered name, and the registration replays at most as many tuples as
\* were pending under that name.
C29_RegistrationTerminates ==
    [][/\ \A q \in AllPending(queued_structs') :
             /\ Head(q.ty) = "struct:"
             /\ \A o \in Oracle :
                   \E v \in {parse_from_wpilog(q.ty, q.data, struct_map', o)} :
                      v.ok => v.v.t # "StructSchema"
       /\ last'.op = "register"
            => /\ Len(last'.replayed) <= Len(Pending(Last(last'.key)))
               /\ struct_map' = insert(struct_map, Last(last'.key), last'.s)
      ]_vars

\* a registration has replayed two pending tuples, and both were deferred
\* again under the name of a nested schema
C29_Witness ==
    /\ last.op = "register" /\ last.ret = "Ok" /\ Last(last.key) = Foo
    /\ Len(last.replayed) = 2
    /\ Bar \in DOMAIN queued_structs /\ Len(queued_structs[Bar]) = 2

RECURSIVE InnerMissing(_, _)
\* the unregistered names that the schema called name reaches through its
\* custom fields under the registry reg (name itself when it is unregistered)
InnerMissing(name, reg) ==
    IF name \notin DOMAIN reg THEN {name}
    ELSE UNION {InnerMissing(reg[name].fields[f].ty.s, reg) :
                   f \in {g \in DOMAIN reg[name].fields :
                             reg[name].fields[g].ty.kind = "Custom"}}

\* the registration has written the leaves of the pending tuple q
Replayed(q, written, reg) ==
    \E o \in Oracle :
       \E v \in {parse_from_wpilog(q.ty, q.data, reg, o)} :
          /\ v.ok
          /\ \A l \in Flat(q.key, v.v) :
                \E i \in 1..Len(written) :
                   written[i] = [key |-> l.key, ts |-> q.ts, val |-> l.val]

\* C27: an add_entry of a struct tag that reaches an unregistered schema,
\* directly or through nested custom fields, queues its tuple under an
\* innermost unregistered name; and when after a registration every schema
\* that a pending tuple's tag reaches is registered, the tuple is in no
\* pending list any more and the registration has written its leaves.
C27_DeferredUntilClosure ==
    [][/\ ( /\ last'.op = "add_entry" /\ Head(last'.ty) = "struct:"
            /\ InnerMissing(Stripped(last'.ty), struct_map) # {} )
          => \E n \in InnerMissing(Stripped(last'.ty), struct_map) :
                /\ n \in DOMAIN queued_structs'
                /\ Last(queued_structs'[n]) = Tuple(last')
       /\ last'.op = "register"
          => \A q \in AllPending(queued_structs) :
                InnerMissing(Stripped(q.ty), struct_map') = {}
                   => /\ q \notin AllPending(queued_structs')
                      /\ Replayed(q, last'.written, struct_map')
      ]_vars

\* the number of places at which the tuple q is pending in the queue map qs
CountPending(q, qs) ==
    Cardinality({p \in UNION {{<<n, i>> : i \in 1..Len(qs[n])} : n \in DOMAIN qs} :
                    qs[p[1]][p[2]] = q})

\* the decode of q under the registry reg misses a schema
Misses(q, reg) ==
    \E v \in {parse_from_wpilog(q.ty, q.data, reg, <<<<fa, fb>>, <<fa, fb>>>>)} :
       ~v.ok /\ v.e = "StructNotFound"

\* the number of replays of q that ended in a decode result, a value or a
\* failure, under the registry reg
CountDecoded(q, replayed, reg) ==
    IF Misses(q, reg) THEN 0
    ELSE Cardinality({i \in 1..Len(replayed) : replayed[i].q = q})

\* C28: pending tuples are conserved.  An add_entry that is deferred adds
\* its tuple, as submitted, to one pending list and changes no other; a
\* registration takes a tuple out of the pending lists only by replaying it to
\* a decode result, and a replay that misses a schema leaves the tuple
\* pending once; no other call changes the pending lists.
C28_PendingConserved ==
    [][\A q \in AllPending(queued_structs) \cup AllPending(queued_structs') :
         CASE last'.op = "add_entry" ->
                 CountPending(q, queued_structs')
                    = CountPending(q, queued_structs)
                         + (IF q = Tuple(last') /\ Misses(q, struct_map) THEN 1 ELSE 0)
           [] last'.op = "register" ->
                 CountPending(q, queued_structs')
                       + CountDecoded(q, last'.replayed, struct_map')
                    = CountPending(q, queued_structs)
           [] OTHER -> CountPending(q, queued_structs') = CountPending(q, queued_structs)
      ]_vars

(***************************************************************************)
(* Two add_entry calls in both orders.  PairSpec builds a store with up to *)
(* MaxBase calls and then applies a pair of add_entry calls to it in the   *)
(* order a, b (which becomes the store) and in the order b, a.             *)
(***************************************************************************)
MaxBase == 2

PairPayloads == {<<1>>, <<0, 1>>}

\* the tags that payloads of one or two bytes can decode under
PairTags == {<<"boolean">>, <<"boolean", "[]">>, Foo, Foo \o <<"[]">>}

\* the arguments of one add_entry call
PairCalls ==
    {queued(key, t, ty, data) :
        key \in DataKeys, t \in Timestamps, ty \in PairTags, data \in PairPayloads}

\* the add_entry calls that a base store is built with
BaseCalls == {c \in PairCalls : c.ts = 1 /\ c.data = <<0, 1>>}

\* log.add_entry(a); log.add_entry(b), beside log.add_entry(b);
\* log.add_entry(a) on a copy of the same store; o gives the iteration orders
\* of the four decodes
AddPair(a, b, o) ==
    /\ ~panicked /\ nops <= MaxBase
    /\ \E a1 \in {add_entry(Store, a.key, a.ts, a.ty, a.data, o[1], <<>>)},
          b2 \in {add_entry(Store, b.key, b.ts, b.ty, b.data, o[3], <<>>)} :
          \E b1 \in {add_entry(a1.st, b.key, b.ts, b.ty, b.data, o[2], <<>>)},
             a2 \in {add_entry(b2.st, a.key, a.ts, a.ty, a.data, o[4], <<>>)} :
             /\ Becomes(b1.st)
             /\ panicked' = ("Panic" \in {a1.ret, b1.ret, b2.ret, a2.ret})
             /\ last' = Applied("pair", [a |-> a, b |-> b],
                                <<a1.ret, b1.ret, b2.ret, a2.ret>>,
                                [ab |-> b1.st, ba |-> a2.st,
                                 wa |-> a1.written, wb |-> b1.written])
             /\ since' = since \cup Keys(a1.written) \cup Keys(b1.written)
    /\ nops' = MaxBase + 1

\* a registration that is part of the base store
BaseRegister(key, timestamp, s, os) ==
    /\ nops < MaxBase
    /\ RegisterSchema(key, timestamp, s, os)

\* an add_entry that is part of the base store
BaseAdd(c, o) ==
    /\ nops < MaxBase
    /\ AddEntry(c.key, c.ts, c.ty, c.data, o)

PairNext ==
    \/ \E key \in SchemaKeys, t \in {1} :
         \E s \in Schemas(Last(key)), os \in [1..Len(Pending(Last(key))) -> Oracle] :
            BaseRegister(key, t, s, os)
    \/ \E c \in BaseCalls : \E o \in OraclesFor(c.ty) : BaseAdd(c, o)
    \/ \E a \in PairCalls, b \in PairCalls :
         \E o \in OraclesFor(a.ty) \X OraclesFor(b.ty) \X OraclesFor(b.ty)
                     \X OraclesFor(a.ty) : AddPair(a, b, o)

PairSpec == Init /\ [][PairNext]_vars

\* the value that the writes w leave at (key, ts): that of the last of them
FinalOf(w, key, ts) ==
    w[CHOOSE i \in 1..Len(w) :
         /\ w[i].key = key /\ w[i].ts = ts
         /\ \A j \in i + 1..Len(w) : ~(w[j].key = key /\ w[j].ts = ts)].val

\* C30: two add_entry calls of non-schema values that both return Ok in
\* both orders and write disjoint sets of (path, timestamp) commute: either
\* order leaves the same entries and the same changed set; and at every
\* (path, timestamp) that the later call writes, the value of the later call
\* is the one stored.
C30_DisjointWritesCommute ==
    (last.op = "pair" /\ last.ret = <<"Ok", "Ok", "Ok", "Ok">>)
    => /\ Keys(last.out.wa) \cap Keys(last.out.wb) = {}
            => /\ last.out.ab.entries = last.out.ba.entries
               /\ last.out.ab.changed = last.out.ba.changed
       /\ \A k \in Keys(last.out.wb) :
             stored(last.out.ab.entries, k[1], k[2])
                = Some(FinalOf(last.out.wb, k[1], k[2]))

\* two calls that write different timestamps of the same paths have been
\* applied to a store that already holds a value
C30_Witness ==
    /\ last.op = "pair" /\ last.ret = <<"Ok", "Ok", "Ok", "Ok">>
    /\ last.out.wa # <<>> /\ last.out.wb # <<>>
    /\ Keys(last.out.wa) \cap Keys(last.out.wb) = {}
    /\ {k[1] : k \in Keys(last.out.wa)} \cap {k[1] : k \in Keys(last.out.wb)} # {}
    /\ last.args.a.ts > last.args.b.ts
    /\ Len(last.out.wa) > 1

\* the later of two calls has replaced the value that the earlier call stored
\* at the same (path, timestamp)
C30_Overwritten ==
    /\ last.op = "pair" /\ last.ret = <<"Ok", "Ok", "Ok", "Ok">>
    /\ \E k \in Keys(last.out.wa) \cap Keys(last.out.wb) :
          FinalOf(last.out.wa, k[1], k[2]) # FinalOf(last.out.wb, k[1], k[2])

(***************************************************************************)
(* Properties of the registration of a schema text                         *)
(***************************************************************************)
\* C21: an add_entry of a `structschema` payload whose text is malformed
\* fails: it returns Err, the registry is what it was, and the tuple pending
\* under the entry's name is still pending.
C21_MalformedSchemaText ==
    (last.op = "register_text" /\ last.args.text \in BadTexts)
    => /\ last.ret = "Err"
       /\ last.out.after.struct_map = last.out.before.struct_map
       /\ last.out.after.queued_structs = last.out.before.queued_structs

====
